---- MODULE Spec2Model ----
(***************************************************************************)
(* Model of claude-gomod: an MCP server answering four operations          *)
(* (list-versions, read-manifest, list-files, read-file) from the Go       *)
(* module proxy, an on-disk module cache (ModCache) and an in-memory zip   *)
(* cache (ZipCache).                                                       *)
(*                                                                         *)
(* Go strings and byte slices are sequences of byte values 0..255.         *)
(* Go errors are records: chain is the Unwrap chain of messages, outermost *)
(* first (a layer added with %w keeps the layers below it), status and url *)
(* are the diagnostics a layer carries.                                    *)
(***************************************************************************)
EXTENDS Integers, Sequences, FiniteSets, TLC

\* ------------------------------------------------------------------------
\* Strings
\* ------------------------------------------------------------------------

\* The printable ASCII characters, code points 32..126, in code-point order
\* (the three that a literal cannot hold are named, and written as numbers
\* where they are used).
AsciiPrintable ==
    << " ", "!", "<dquote>", "#", "$", "%", "&", "'", "(", ")", "*", "+", ",", "-",
       ".", "/", "0", "1", "2", "3", "4", "5", "6", "7", "8", "9", ":", ";",
       "<", "=", ">", "?", "@", "A", "B", "C", "D", "E", "F", "G", "H", "I",
       "J", "K", "L", "M", "N", "O", "P", "Q", "R", "S", "T", "U", "V", "W",
       "X", "Y", "Z", "[", "<backslash>", "]", "^", "_", "<backtick>", "a", "b", "c", "d", "e",
       "f", "g", "h", "i", "j", "k", "l", "m", "n", "o", "p", "q", "r", "s",
       "t", "u", "v", "w", "x", "y", "z", "{", "|", "}", "~" >>

\* The byte value of a one-character literal.
Ord(c) ==
    IF c = "\n" THEN 10
    ELSE IF c = "\t" THEN 9
    ELSE IF c = "\r" THEN 13
    ELSE 31 + (CHOOSE i \in DOMAIN AsciiPrintable : AsciiPrintable[i] = c)

\* A string literal, written as a tuple of one-character literals.
Str(cs) == [i \in DOMAIN cs |-> Ord(cs[i])]

Min(a, b) == IF a <= b THEN a ELSE b

\* strings.HasPrefix
HasPrefix(s, prefix) ==
    /\ Len(prefix) <= Len(s)
    /\ SubSeq(s, 1, Len(prefix)) = prefix

\* strings.HasSuffix
HasSuffix(s, suffix) ==
    /\ Len(suffix) <= Len(s)
    /\ SubSeq(s, Len(s) - Len(suffix) + 1, Len(s)) = suffix

\* strings.TrimPrefix
TrimPrefix(s, prefix) ==
    IF HasPrefix(s, prefix) THEN SubSeq(s, Len(prefix) + 1, Len(s)) ELSE s

\* strings.Index, 0-based as in Go; -1 when substr does not occur.
Index(s, substr) ==
    LET hits == { i \in 0..(Len(s) - Len(substr)) :
                    SubSeq(s, i + 1, i + Len(substr)) = substr }
    IN  IF hits = {} THEN -1 ELSE CHOOSE i \in hits : \A j \in hits : i <= j

\* strings.LastIndex, 0-based; -1 when substr does not occur.
LastIndex(s, substr) ==
    LET hits == { i \in 0..(Len(s) - Len(substr)) :
                    SubSeq(s, i + 1, i + Len(substr)) = substr }
    IN  IF hits = {} THEN -1 ELSE CHOOSE i \in hits : \A j \in hits : i >= j

\* ASCII case folding of one byte (unicode.SimpleFold restricted to ASCII).
FoldByte(b) == IF b >= 65 /\ b <= 90 THEN b + 32 ELSE b

\* strings.EqualFold on ASCII strings.
EqualFold(s, t) ==
    /\ Len(s) = Len(t)
    /\ \A i \in DOMAIN s : FoldByte(s[i]) = FoldByte(t[i])

\* The width in bytes of the well-formed UTF-8 encoding that starts at s[i],
\* or 0 when the bytes there are not a well-formed encoding (unicode/utf8).
RuneWidth(s, i) ==
    LET n      == Len(s)
        b0     == s[i]
        At(k)  == s[i + k]
        Cont(k) == i + k <= n /\ At(k) >= 128 /\ At(k) <= 191
        In(k, lo, hi) == i + k <= n /\ At(k) >= lo /\ At(k) <= hi
    IN  IF b0 < 128 THEN 1
        ELSE IF b0 >= 194 /\ b0 <= 223 THEN (IF Cont(1) THEN 2 ELSE 0)
        ELSE IF b0 = 224 THEN (IF In(1, 160, 191) /\ Cont(2) THEN 3 ELSE 0)
        ELSE IF b0 = 237 THEN (IF In(1, 128, 159) /\ Cont(2) THEN 3 ELSE 0)
        ELSE IF b0 >= 225 /\ b0 <= 239 THEN (IF Cont(1) /\ Cont(2) THEN 3 ELSE 0)
        ELSE IF b0 = 240 THEN (IF In(1, 144, 191) /\ Cont(2) /\ Cont(3) THEN 4 ELSE 0)
        ELSE IF b0 >= 241 /\ b0 <= 243 THEN (IF Cont(1) /\ Cont(2) /\ Cont(3) THEN 4 ELSE 0)
        ELSE IF b0 = 244 THEN (IF In(1, 128, 143) /\ Cont(2) /\ Cont(3) THEN 4 ELSE 0)
        ELSE 0

RECURSIVE Utf8ValidFrom(_, _)
Utf8ValidFrom(s, i) ==
    IF i > Len(s) THEN TRUE
    ELSE LET w == RuneWidth(s, i)
         IN  w > 0 /\ Utf8ValidFrom(s, i + w)

\* utf8.Valid
Utf8Valid(s) == Utf8ValidFrom(s, 1)

\* ------------------------------------------------------------------------
\* Errors
\* ------------------------------------------------------------------------

NoErr == [chain |-> <<>>, status |-> 0, url |-> <<>>]

IsErr(e) == e.chain # <<>>

\* errors.New(msg)
NewError(msg) == [chain |-> <<msg>>, status |-> 0, url |-> <<>>]

\* fmt.Errorf(msg + ": %w", err): a new outer layer over err's chain.
Wrap(msg, err) == [err EXCEPT !.chain = <<msg>> \o @]

\* var ErrModuleNotFound = errors.New("module not found")
ErrModuleNotFound == NewError("module not found")

\* errors.Is(err, target) for a sentinel target: some layer of err's chain is
\* the sentinel.
ErrorsIs(err, target) ==
    \E i \in DOMAIN err.chain : err.chain[i] = target.chain[1]

\* ------------------------------------------------------------------------
\* proxy.go: encodePath and ProxyClient.get
\* ------------------------------------------------------------------------

\* const maxZipSize = 100 << 20
maxZipSize == 104857600

\* U+FFFD as UTF-8: what WriteRune writes for the RuneError that ranging over
\* a string yields at an ill-formed byte.
RuneErrorBytes == <<239, 191, 189>>

RECURSIVE encodeFrom(_, _)
encodeFrom(path, i) ==
    IF i > Len(path) THEN <<>>
    ELSE LET w == RuneWidth(path, i)
         IN  IF w = 0 THEN RuneErrorBytes \o encodeFrom(path, i + 1)
             ELSE IF w = 1 /\ path[i] >= 65 /\ path[i] <= 90
                  THEN <<33, path[i] + 32>> \o encodeFrom(path, i + 1)
             ELSE SubSeq(path, i, i + w - 1) \o encodeFrom(path, i + w)

\* Mutant: upper-case letters are lower-cased without the marker.
encodePathNoMarker(path) == [i \in DOMAIN path |-> FoldByte(path[i])]

\* Mutant: the marker is written but the letter keeps its case.
RECURSIVE encodePathKeepsCase(_)
encodePathKeepsCase(path) ==
    IF path = <<>> THEN <<>>
    ELSE (IF path[1] >= 65 /\ path[1] <= 90 THEN <<33, path[1]>> ELSE <<path[1]>>)
         \o encodePathKeepsCase(Tail(path))

\* encodePath: every 'A'..'Z' becomes '!' and the lower-case letter.
encodePath(path) == encodeFrom(path, 1)

HttpStatusOK == 200
HttpStatusNotFound == 404
HttpStatusGone == 410

\* io.ReadAll(io.LimitReader(resp.Body, limit)): the number of bytes read of
\* a body of n bytes.
LimitRead(n, limit) == Min(n, limit)

\* A response as the HTTP client delivers it:
\*   transport "doErr"   client.Do fails (connection failure, cancellation)
\*             "readErr" the body read fails (cancellation while reading)
\*             "ok"      status and a body of n bytes with content data.
\* get's result: err, and on success the body as its content and the number
\* of bytes of it that were read.
NoBody == [data |-> <<>>, n |-> 0]

getBodyLimitBug(url, resp) ==
    IF resp.transport = "doErr"
    THEN [err |-> [Wrap("fetch", NewError(resp.cause)) EXCEPT !.url = url], body |-> NoBody]
    ELSE IF resp.status = HttpStatusNotFound \/ resp.status = HttpStatusGone
    THEN [err |-> ErrModuleNotFound, body |-> NoBody]
    ELSE IF resp.status # HttpStatusOK
    THEN [err |-> [NewError("unexpected status") EXCEPT !.status = resp.status, !.url = url],
          body |-> NoBody]
    ELSE IF resp.transport = "readErr"
    THEN [err |-> Wrap("read response", NewError(resp.cause)), body |-> NoBody]
    ELSE LET read == LimitRead(resp.n, maxZipSize)
         IN  IF read > maxZipSize
             THEN [err |-> NewError("response too large"), body |-> NoBody]
             ELSE [err |-> NoErr, body |-> [data |-> resp.data, n |-> read]]

getGoneBug(url, resp) ==
    IF resp.transport = "doErr"
    THEN [err |-> [Wrap("fetch", NewError(resp.cause)) EXCEPT !.url = url], body |-> NoBody]
    ELSE IF resp.status = HttpStatusNotFound
    THEN [err |-> ErrModuleNotFound, body |-> NoBody]
    ELSE IF resp.status # HttpStatusOK
    THEN [err |-> [NewError("unexpected status") EXCEPT !.status = resp.status, !.url = url],
          body |-> NoBody]
    ELSE IF resp.transport = "readErr"
    THEN [err |-> Wrap("read response", NewError(resp.cause)), body |-> NoBody]
    ELSE LET read == LimitRead(resp.n, maxZipSize + 1)
         IN  IF read > maxZipSize
             THEN [err |-> NewError("response too large"), body |-> NoBody]
             ELSE [err |-> NoErr, body |-> [data |-> resp.data, n |-> read]]

\* Mutant: a failed body read returns what was read.
getIgnoresReadErr(url, resp) ==
    IF resp.transport = "doErr"
    THEN [err |-> [Wrap("fetch", NewError(resp.cause)) EXCEPT !.url = url], body |-> NoBody]
    ELSE IF resp.status = HttpStatusNotFound \/ resp.status = HttpStatusGone
    THEN [err |-> ErrModuleNotFound, body |-> NoBody]
    ELSE IF resp.status # HttpStatusOK
    THEN [err |-> [NewError("unexpected status") EXCEPT !.status = resp.status, !.url = url],
          body |-> NoBody]
    ELSE LET read == LimitRead(resp.n, maxZipSize + 1)
         IN  IF read > maxZipSize
             THEN [err |-> NewError("response too large"), body |-> NoBody]
             ELSE [err |-> NoErr, body |-> [data |-> resp.data, n |-> read]]

\* ProxyClient.get
get(url, resp) ==
    IF resp.transport = "doErr"
    THEN [err |-> [Wrap("fetch", NewError(resp.cause)) EXCEPT !.url = url], body |-> NoBody]
    ELSE IF resp.status = HttpStatusNotFound \/ resp.status = HttpStatusGone
    THEN [err |-> ErrModuleNotFound, body |-> NoBody]
    ELSE IF resp.status # HttpStatusOK
    THEN [err |-> [NewError("unexpected status") EXCEPT !.status = resp.status, !.url = url],
          body |-> NoBody]
    ELSE IF resp.transport = "readErr"
    THEN [err |-> Wrap("read response", NewError(resp.cause)), body |-> NoBody]
    ELSE LET read == LimitRead(resp.n, maxZipSize + 1)
         IN  IF read > maxZipSize
             THEN [err |-> NewError("response too large"), body |-> NoBody]
             ELSE [err |-> NoErr, body |-> [data |-> resp.data, n |-> read]]

\* const defaultProxyURL
defaultProxyURL ==
    Str(<<"h","t","t","p","s",":","/","/","p","r","o","x","y",".",
          "g","o","l","a","n","g",".","o","r","g">>)

Slash == Str(<<"/">>)
AtSign == Str(<<"@">>)
Newline == Str(<<"\n">>)

\* The four endpoints' URLs: fmt.Sprintf("%s/%s/@v/list", baseURL, encodePath(module)), ...
ListURL(module) ==
    defaultProxyURL \o Slash \o encodePath(module) \o Str(<<"/","@","v","/","l","i","s","t">>)

LatestURL(module) ==
    defaultProxyURL \o Slash \o encodePath(module) \o Str(<<"/","@","l","a","t","e","s","t">>)

ModURL(module, version) ==
    defaultProxyURL \o Slash \o encodePath(module) \o Str(<<"/","@","v","/">>)
        \o version \o Str(<<".","m","o","d">>)

ZipURL(module, version) ==
    defaultProxyURL \o Slash \o encodePath(module) \o Str(<<"/","@","v","/">>)
        \o version \o Str(<<".","z","i","p">>)

\* unicode.IsSpace on the bytes a body can hold here.
IsSpace(b) == b \in {9, 10, 11, 12, 13, 32}

RECURSIVE TrimLeft(_)
TrimLeft(s) == IF s # <<>> /\ IsSpace(s[1]) THEN TrimLeft(Tail(s)) ELSE s

RECURSIVE TrimRight(_)
TrimRight(s) ==
    IF s # <<>> /\ IsSpace(s[Len(s)]) THEN TrimRight(SubSeq(s, 1, Len(s) - 1)) ELSE s

\* strings.TrimSpace
TrimSpace(s) == TrimRight(TrimLeft(s))

\* strings.Split(s, sep) for a one-byte separator: always at least one piece.
RECURSIVE Split(_, _)
Split(s, sep) ==
    LET i == Index(s, sep)
    IN  IF i < 0 THEN <<s>>
        ELSE <<SubSeq(s, 1, i)>> \o Split(SubSeq(s, i + 2, Len(s)), sep)

RECURSIVE NonBlankLines(_)
NonBlankLines(lines) ==
    IF lines = <<>> THEN <<>>
    ELSE LET line == TrimSpace(Head(lines))
         IN  (IF line # <<>> THEN <<line>> ELSE <<>>) \o NonBlankLines(Tail(lines))

\* Mutant: the lines are kept as they are.
ListVersionsKeepsSpace(module, resp) ==
    LET r == get(ListURL(module), resp)
        lines == Split(TrimSpace(r.body.data), Newline)
    IN  IF IsErr(r.err) THEN [err |-> r.err, versions |-> <<>>]
        ELSE [err |-> NoErr,
              versions |-> SelectSeq(lines, LAMBDA l : TrimSpace(l) # <<>>)]

\* ProxyClient.ListVersions
ListVersions(module, resp) ==
    LET r == get(ListURL(module), resp)
    IN  IF IsErr(r.err) THEN [err |-> r.err, versions |-> <<>>]
        ELSE [err |-> NoErr,
              versions |-> NonBlankLines(Split(TrimSpace(r.body.data), Newline))]

\* ProxyClient.Latest
Latest(module, resp) ==
    LET r == get(LatestURL(module), resp)
    IN  IF IsErr(r.err) THEN [err |-> r.err, text |-> <<>>]
        ELSE [err |-> NoErr, text |-> r.body.data]

\* const key = `"Version":"`
VersionKey == <<34>> \o Str(<<"V","e","r","s","i","o","n">>) \o <<34, 58, 34>>

\* Mutant: the last marker of the blob is used.
ResolveLatestLastMarker(module, resp) ==
    LET r == get(LatestURL(module), resp)
    IN  IF IsErr(r.err) THEN [err |-> r.err, version |-> <<>>]
        ELSE LET s == r.body.data
                 i == LastIndex(s, VersionKey)
             IN  IF i < 0
                 THEN [err |-> NewError("cannot parse latest response"), version |-> <<>>]
                 ELSE LET rest == SubSeq(s, i + Len(VersionKey) + 1, Len(s))
                          j    == Index(rest, <<34>>)
                      IN  IF j < 0
                          THEN [err |-> NewError("cannot parse latest response version"),
                                version |-> <<>>]
                          ELSE [err |-> NoErr, version |-> SubSeq(rest, 1, j)]

\* ProxyClient.ResolveLatest
ResolveLatest(module, resp) ==
    LET r == get(LatestURL(module), resp)
    IN  IF IsErr(r.err) THEN [err |-> r.err, version |-> <<>>]
        ELSE LET s == r.body.data
                 i == Index(s, VersionKey)
             IN  IF i < 0
                 THEN [err |-> NewError("cannot parse latest response"), version |-> <<>>]
                 ELSE LET rest == SubSeq(s, i + Len(VersionKey) + 1, Len(s))
                          j    == Index(rest, <<34>>)
                      IN  IF j < 0
                          THEN [err |-> NewError("cannot parse latest response version"),
                                version |-> <<>>]
                          ELSE [err |-> NoErr, version |-> SubSeq(rest, 1, j)]

\* ProxyClient.ReadMod
ReadMod(module, version, resp) ==
    LET r == get(ModURL(module, version), resp)
    IN  IF IsErr(r.err) THEN [err |-> r.err, text |-> <<>>]
        ELSE [err |-> NoErr, text |-> r.body.data]

\* ProxyClient.DownloadZip
DownloadZip(module, version, resp) ==
    LET r == get(ZipURL(module, version), resp)
    IN  IF IsErr(r.err) THEN [err |-> r.err, data |-> NoBody]
        ELSE [err |-> NoErr, data |-> r.body]

\* ------------------------------------------------------------------------
\* cache.go: ZipEntry and ZipCache
\* ------------------------------------------------------------------------

\* Archive bytes are a record: valid says whether zip.NewReader accepts them,
\* records is the container's records in order, each a name and its content.
\* A ZipEntry is [id, files]: id stands for the pointer, files maps a
\* stripped path to the content of its record.

\* ZipEntry.ListFiles: the names, in the map's unspecified order.
ZipListFiles(entry, prefix) ==
    { name \in DOMAIN entry.files : prefix = <<>> \/ HasPrefix(name, prefix) }

\* The orders in which a range over a map with these keys can visit them.
MapOrders(keys) ==
    { o \in [1..Cardinality(keys) -> keys] : \A k \in keys : \E i \in DOMAIN o : o[i] = k }

\* Mutant: the prefix is matched by whole path elements.
RECURSIVE ZipListFilesBySegment(_, _, _)
ZipListFilesBySegment(entry, prefix, order) ==
    IF order = <<>> THEN <<>>
    ELSE LET name == Head(order)
         IN  (IF prefix = <<>> \/ name = prefix \/ HasPrefix(name, prefix \o Slash)
                 \/ (HasSuffix(prefix, Slash) /\ HasPrefix(name, prefix))
              THEN <<name>> ELSE <<>>)
             \o ZipListFilesBySegment(entry, prefix, Tail(order))

\* ZipEntry.ListFiles as the slice it builds: the loop appends each matching
\* name as the range over e.files reaches it, in the order the map yields.
RECURSIVE ZipListFilesOrdered(_, _, _)
ZipListFilesOrdered(entry, prefix, order) ==
    IF order = <<>> THEN <<>>
    ELSE LET name == Head(order)
         IN  (IF prefix = <<>> \/ HasPrefix(name, prefix) THEN <<name>> ELSE <<>>)
             \o ZipListFilesOrdered(entry, prefix, Tail(order))

\* Mutant: the content is cut at the first ill-formed byte instead of refused.
ZipReadFileValidPrefix(entry, path) ==
    IF path \notin DOMAIN entry.files
    THEN [err |-> NewError("file not found in archive"), text |-> <<>>]
    ELSE LET data == entry.files[path]
             good == { n \in 0..Len(data) : Utf8Valid(SubSeq(data, 1, n)) }
             n    == CHOOSE k \in good : \A j \in good : j <= k
         IN  [err |-> NoErr, text |-> SubSeq(data, 1, n)]

\* ZipEntry.ReadFile
ZipReadFile(entry, path) ==
    IF path \notin DOMAIN entry.files
    THEN [err |-> NewError("file not found in archive"), text |-> <<>>]
    ELSE LET data == entry.files[path]
         IN  IF ~Utf8Valid(data)
             THEN [err |-> NewError("file appears to be binary"), text |-> <<>>]
             ELSE [err |-> NoErr, text |-> data]

\* The composite key of the table: module + "@" + version.
CacheKey(module, version) == module \o AtSign \o version

\* ZipCache.Get's lookup: the entry, or NilEntry.
NilEntry == [id |-> 0, files |-> <<>>]

\* Mutant: the lookup key leaves the version out.
ZipCacheGetWrongKey(tbl, module, version) ==
    IF module \o AtSign \in DOMAIN tbl THEN tbl[module \o AtSign] ELSE NilEntry

ZipCacheGet(tbl, module, version) ==
    IF CacheKey(module, version) \in DOMAIN tbl
    THEN tbl[CacheKey(module, version)]
    ELSE NilEntry

\* Mutant: directory markers are indexed like files.
ZipBuildEntryKeepsDirs(module, version, data, id) ==
    IF ~data.valid
    THEN [err |-> Wrap("parse zip", NewError("zip: not a valid zip file")),
          entry |-> NilEntry]
    ELSE LET prefix   == module \o AtSign \o version \o Slash
             stripped == [i \in DOMAIN data.records |->
                            TrimPrefix(data.records[i].name, prefix)]
             kept     == { i \in DOMAIN data.records : stripped[i] # <<>> }
             names    == { stripped[i] : i \in kept }
             last(n)  == CHOOSE i \in kept :
                            stripped[i] = n /\ \A j \in kept : stripped[j] = n => j <= i
         IN  [err |-> NoErr,
              entry |-> [id |-> id,
                         files |-> [n \in names |-> data.records[last(n)].content]]]

\* ZipCache.Put, up to the insertion: parse, strip the prefix, index.
\* The record kept for a name is the last one with that name.
ZipBuildEntry(module, version, data, id) ==
    IF ~data.valid
    THEN [err |-> Wrap("parse zip", NewError("zip: not a valid zip file")),
          entry |-> NilEntry]
    ELSE LET prefix   == module \o AtSign \o version \o Slash
             stripped == [i \in DOMAIN data.records |->
                            TrimPrefix(data.records[i].name, prefix)]
             kept     == { i \in DOMAIN data.records :
                             stripped[i] # <<>> /\ ~HasSuffix(stripped[i], Slash) }
             names    == { stripped[i] : i \in kept }
             last(n)  == CHOOSE i \in kept :
                            stripped[i] = n /\ \A j \in kept : stripped[j] = n => j <= i
         IN  [err |-> NoErr,
              entry |-> [id |-> id,
                         files |-> [n \in names |-> data.records[last(n)].content]]]

\* Mutant: Put returns the entry without storing it.
ZipCacheInsertDrop(tbl, module, version, entry) == tbl

\* Mutant: an entry already stored for the key is kept.
ZipCacheInsertKeepsFirst(tbl, module, version, entry) ==
    LET key == CacheKey(module, version)
    IN  IF key \in DOMAIN tbl THEN tbl
        ELSE [k \in DOMAIN tbl \cup {key} |-> IF k = key THEN entry ELSE tbl[k]]

\* ZipCache.Put's insertion under the lock.
ZipCacheInsert(tbl, module, version, entry) ==
    LET key == CacheKey(module, version)
    IN  [k \in DOMAIN tbl \cup {key} |-> IF k = key THEN entry ELSE tbl[k]]

\* Mutant: a failed parse clears the key.
ZipCachePutClearsOnError(tbl, module, version, data, id) ==
    LET b == ZipBuildEntry(module, version, data, id)
    IN  IF IsErr(b.err)
        THEN [err |-> b.err, entry |-> NilEntry,
              tbl |-> [k \in DOMAIN tbl \ {CacheKey(module, version)} |-> tbl[k]]]
        ELSE [err |-> NoErr, entry |-> b.entry,
              tbl |-> ZipCacheInsert(tbl, module, version, b.entry)]

\* Mutant: the table holds one entry; a successful Put drops the others.
ZipCachePutEvicts(tbl, module, version, data, id) ==
    LET b == ZipBuildEntry(module, version, data, id)
    IN  IF IsErr(b.err)
        THEN [err |-> b.err, entry |-> NilEntry, tbl |-> tbl]
        ELSE [err |-> NoErr, entry |-> b.entry,
              tbl |-> ZipCacheInsert(<<>>, module, version, b.entry)]

\* ZipCache.Put as a whole: the error or the entry it returns, and the table
\* it leaves.
ZipCachePut(tbl, module, version, data, id) ==
    LET b == ZipBuildEntry(module, version, data, id)
    IN  IF IsErr(b.err)
        THEN [err |-> b.err, entry |-> NilEntry, tbl |-> tbl]
        ELSE [err |-> NoErr, entry |-> b.entry,
              tbl |-> ZipCacheInsert(tbl, module, version, b.entry)]

\* ------------------------------------------------------------------------
\* modcache.go and local.go over the filesystem
\* ------------------------------------------------------------------------

\* A filesystem node: kind "none" (nothing there), "file" (data), or "dir"
\* (tree: the regular files below it, by forward-slash relative path;
\* others: the relative paths of what is below it and is neither a directory
\* nor a regular file, such as a symbolic link or a named pipe).
NoNode == [kind |-> "none", data |-> <<>>, tree |-> <<>>, others |-> {}]
FileNode(data) == [kind |-> "file", data |-> data, tree |-> <<>>, others |-> {}]
DirNode(tree) == [kind |-> "dir", data |-> <<>>, tree |-> tree, others |-> {}]
DirNodeWith(tree, others) == [DirNode(tree) EXCEPT !.others = others]

\* os.Stat on a filesystem fs (a function from path to node).
Stat(fs, path) == IF path \in DOMAIN fs THEN fs[path] ELSE NoNode

\* filepath.Join of two elements without dot segments.
JoinPath(a, b) ==
    IF a = <<>> THEN b ELSE IF b = <<>> THEN a ELSE a \o Slash \o b

Dot == Str(<<".">>)
DotDot == Str(<<".",".">>)

\* filepath.Clean, the loop over the path's elements: stack holds the
\* elements kept so far.
RECURSIVE CleanSegs(_, _, _)
CleanSegs(segs, stack, rooted) ==
    IF segs = <<>> THEN stack
    ELSE LET seg  == Head(segs)
             rest == Tail(segs)
         IN  IF seg = <<>> \/ seg = Dot THEN CleanSegs(rest, stack, rooted)
             ELSE IF seg = DotDot
             THEN IF stack # <<>> /\ stack[Len(stack)] # DotDot
                  THEN CleanSegs(rest, SubSeq(stack, 1, Len(stack) - 1), rooted)
                  ELSE IF rooted THEN CleanSegs(rest, stack, rooted)
                  ELSE CleanSegs(rest, Append(stack, seg), rooted)
             ELSE CleanSegs(rest, Append(stack, seg), rooted)

RECURSIVE JoinSegs(_)
JoinSegs(segs) ==
    IF segs = <<>> THEN <<>>
    ELSE IF Len(segs) = 1 THEN segs[1]
    ELSE segs[1] \o Slash \o JoinSegs(Tail(segs))

\* filepath.Clean on a slash-separated path.
Clean(path) ==
    LET rooted == path # <<>> /\ path[1] = Slash[1]
        kept   == JoinSegs(CleanSegs(Split(path, Slash), <<>>, rooted))
    IN  IF rooted THEN Slash \o kept
        ELSE IF kept = <<>> THEN Dot ELSE kept

\* filepath.Join(a, b): empty elements are ignored, the result is cleaned.
FilepathJoin(a, b) ==
    IF a = <<>> /\ b = <<>> THEN <<>>
    ELSE IF a = <<>> THEN Clean(b)
    ELSE IF b = <<>> THEN Clean(a)
    ELSE Clean(a \o Slash \o b)

\* os.ReadFile on a cleaned path: the bytes of a regular file, or the error
\* of opening or reading what is (or is not) there.
OsReadFile(fs, full) ==
    LET fail(msg) == [err |-> NewError(msg), data |-> <<>>]
        roots  == { r \in DOMAIN fs : fs[r].kind = "dir" /\ HasPrefix(full, r \o Slash) }
        below  == { r \in DOMAIN fs : fs[r].kind # "none" /\ HasPrefix(r, full \o Slash) }
    IN  IF full \in DOMAIN fs /\ fs[full].kind = "file"
        THEN [err |-> NoErr, data |-> fs[full].data]
        ELSE IF full \in DOMAIN fs /\ fs[full].kind = "dir" THEN fail("is a directory")
        ELSE IF roots # {}
        THEN LET r    == CHOOSE x \in roots : TRUE
                 tree == fs[r].tree
                 rel  == SubSeq(full, Len(r) + 2, Len(full))
             IN  IF rel \in DOMAIN tree THEN [err |-> NoErr, data |-> tree[rel]]
                 ELSE IF \E f \in DOMAIN tree : HasPrefix(f, rel \o Slash)
                 THEN fail("is a directory")
                 ELSE IF \E f \in DOMAIN tree : HasPrefix(rel, f \o Slash)
                 THEN fail("not a directory")
                 ELSE fail("no such file or directory")
        ELSE IF below # {} \/ full = Slash THEN fail("is a directory")
        ELSE fail("no such file or directory")

\* ModCache.ModDir
ModDir(dir, module, version) ==
    FilepathJoin(dir, encodePath(module) \o AtSign \o version)

\* Mutant: an unconfigured root is not tested.
HasModuleAnyRoot(fs, dir, module, version) ==
    Stat(fs, ModDir(dir, module, version)).kind = "dir"

\* ModCache.HasModule
HasModule(fs, dir, module, version) ==
    IF dir = <<>> THEN FALSE
    ELSE Stat(fs, ModDir(dir, module, version)).kind = "dir"

\* ModCache.ListFiles: filepath.Walk over the module directory keeps every
\* entry for which info.IsDir() is false.
ModListFiles(fs, dir, module, version, prefix) ==
    LET node == Stat(fs, ModDir(dir, module, version))
    IN  IF node.kind = "none"
        THEN [err |-> Wrap("walk module cache dir", NewError("no such file or directory")),
              files |-> {}]
        ELSE IF node.kind = "file"
        THEN [err |-> NoErr,
              files |-> { rel \in {Str(<<".">>)} : prefix = <<>> \/ HasPrefix(rel, prefix) }]
        ELSE [err |-> NoErr,
              files |-> { rel \in DOMAIN node.tree \cup node.others :
                            prefix = <<>> \/ HasPrefix(rel, prefix) }]

\* ModCache.ReadFile
ModReadFile(fs, dir, module, version, path) ==
    LET full == FilepathJoin(ModDir(dir, module, version), path)
        r    == OsReadFile(fs, full)
    IN  IF IsErr(r.err)
        THEN [err |-> Wrap("read file from mod cache", r.err), text |-> <<>>]
        ELSE IF ~Utf8Valid(r.data)
        THEN [err |-> NewError("file appears to be binary"), text |-> <<>>]
        ELSE [err |-> NoErr, text |-> r.data]

\* lastPathSegment
lastPathSegment(module) ==
    LET i == LastIndex(module, Slash)
    IN  IF i >= 0 THEN SubSeq(module, i + 2, Len(module)) ELSE module

\* LocalReader.Suggest: the suggestion text, empty when there is no directory.
Suggest(fs, baseDir, module) ==
    LET name == lastPathSegment(module)
        dir  == FilepathJoin(baseDir, name)
    IN  IF Stat(fs, dir).kind # "dir" THEN <<>>
        ELSE Str(<<"M","o","d","u","l","e"," ">>) \o module
             \o Str(<<" ","l","o","c","a","l"," ","d","i","r","e","c","t","o","r","y"," ">>)
             \o dir

\* ------------------------------------------------------------------------
\* tools.go: results and formatting
\* ------------------------------------------------------------------------

\* A handler's outcome: kind "text" is textResult(text), "errorResult" is
\* errorResult(text), "err" is a returned Go error; "none" while running.
NoResult == [kind |-> "none", text |-> <<>>, err |-> NoErr]
textResult(text) == [kind |-> "text", text |-> text, err |-> NoErr]
errorResult(text) == [kind |-> "errorResult", text |-> text, err |-> NoErr]
errResult(err) == [kind |-> "err", text |-> <<>>, err |-> err]

\* Byte-wise lexicographic order of Go strings.
StrLess(a, b) ==
    \E i \in 1..(Len(b)) :
        /\ \A j \in 1..(i - 1) : j <= Len(a) /\ a[j] = b[j]
        /\ (i > Len(a) \/ a[i] < b[i])
        /\ i - 1 <= Len(a)

\* sort.Strings on the names a tier returned.
RECURSIVE SortStrings(_)
SortStrings(names) ==
    IF names = {} THEN <<>>
    ELSE LET least == CHOOSE a \in names : \A b \in names : a = b \/ StrLess(a, b)
         IN  <<least>> \o SortStrings(names \ {least})

\* %d of a number >= 0
RECURSIVE Itoa(_)
Itoa(n) ==
    IF n < 10 THEN <<48 + n>> ELSE Itoa(n \div 10) \o <<48 + (n % 10)>>

RECURSIVE JoinLines(_)
JoinLines(lines) ==
    IF lines = <<>> THEN <<>>
    ELSE Head(lines) \o Newline \o JoinLines(Tail(lines))

\* sort.Strings on the slice a tier returned.
RECURSIVE InsertSorted(_, _)
InsertSorted(name, sorted) ==
    IF sorted = <<>> THEN <<name>>
    ELSE IF StrLess(name, Head(sorted)) THEN <<name>> \o sorted
    ELSE <<Head(sorted)>> \o InsertSorted(name, Tail(sorted))

\* Mutant: the slice is left in the order the tier returned it.
SortSliceKeepsOrder(files) == files

RECURSIVE SortSlice(_)
SortSlice(files) ==
    IF files = <<>> THEN <<>>
    ELSE InsertSorted(Head(files), SortSlice(Tail(files)))

\* The text handleListFiles builds from the sorted names.
ListFilesText(module, version, path, files) ==
    Str(<<"F","i","l","e","s"," ","i","n"," ">>) \o module \o AtSign \o version
    \o (IF path # <<>>
        THEN Str(<<" ","(","p","r","e","f","i","x",":"," ">>) \o path \o Str(<<")">>)
        ELSE <<>>)
    \o Str(<<" ","(">>) \o Itoa(Len(files)) \o Str(<<" ","f","i","l","e","s",")",":","\n">>)
    \o JoinLines(files)

\* The text handleListVersions builds.
ListVersionsText(module, versions, latest) ==
    Str(<<"V","e","r","s","i","o","n","s"," ","o","f"," ">>) \o module
    \o Str(<<":","\n">>) \o JoinLines(versions)
    \o (IF latest # <<>>
        THEN Str(<<"\n","L","a","t","e","s","t"," ","i","n","f","o",":","\n">>) \o latest
        ELSE <<>>)

\* Mutant: the suggestion is ignored.
notFoundResultNoSuggest(module, suggestion) ==
    errorResult(Str(<<"M","o","d","u","l","e"," ">>) \o <<34>> \o module \o <<34>>
                \o Str(<<" ","n","o","t"," ","f","o","u","n","d">>))

\* notFoundResult, given what Suggest returned.
notFoundResult(module, suggestion) ==
    IF suggestion # <<>> THEN textResult(suggestion)
    ELSE errorResult(Str(<<"M","o","d","u","l","e"," ">>) \o <<34>> \o module \o <<34>>
                     \o Str(<<" ","n","o","t"," ","f","o","u","n","d">>))

Latest_ == Str(<<"l","a","t","e","s","t">>)

\* resolveVersion: whether the alias was asked for, and what a response to
\* the latest-metadata request resolves it to.
IsLatestAliasExact(version) == version = Latest_

IsLatestAlias(version) == EqualFold(version, Latest_)

\* Mutant: the cause is formatted into the message (%v), not wrapped (%w).
resolveVersionOpaque(module, version, resp) ==
    IF IsLatestAlias(version)
    THEN LET r == ResolveLatest(module, resp)
         IN  IF IsErr(r.err)
             THEN [err |-> NewError("resolve latest version: cause"), version |-> <<>>]
             ELSE [err |-> NoErr, version |-> r.version]
    ELSE [err |-> NoErr, version |-> version]

\* Mutant: a failed resolution is ignored and the version used as given.
resolveVersionSwallow(module, version, resp) ==
    IF IsLatestAlias(version)
    THEN LET r == ResolveLatest(module, resp)
         IN  IF IsErr(r.err)
             THEN [err |-> NoErr, version |-> version]
             ELSE [err |-> NoErr, version |-> r.version]
    ELSE [err |-> NoErr, version |-> version]

resolveVersion(module, version, resp) ==
    IF IsLatestAlias(version)
    THEN LET r == ResolveLatest(module, resp)
         IN  IF IsErr(r.err)
             THEN [err |-> Wrap("resolve latest version", r.err), version |-> <<>>]
             ELSE [err |-> NoErr, version |-> r.version]
    ELSE [err |-> NoErr, version |-> version]

\* ------------------------------------------------------------------------
\* The modelled world: one module, its versions, files and registry answers
\* ------------------------------------------------------------------------

\* Calls started in one run, and body sizes drawn around the ceiling.
MaxCalls == 3
SizeSpread == 1

Procs == {"p1", "p2"}

ModA == Str(<<"x","/","A","b">>)
V1 == Str(<<"v","1">>)
V2 == Str(<<"v","2">>)
LatestMixed == Str(<<"L","a","t","e","s","t">>)
GoMod == Str(<<"g","o",".","m","o","d">>)
ABin == Str(<<"a",".","b","i","n">>)

TextBytes == Str(<<"m","o","d","u","l","e"," ","x","\n">>)
BinBytes == <<137, 80, 78, 71>>
AccentText == <<99, 97, 102, 195, 169, 10>>
CutText == <<99, 97, 102, 195>>

ConcreteVersions == {V1, V2}
Paths == {<<>>, GoMod, ABin}

\* main.go: the directories the process is started with.
ModCacheDir == Str(<<"/","m","c">>)
LocalDir == Str(<<"/","w","s">>)

WorkspacePath == JoinPath(LocalDir, lastPathSegment(ModA))

\* The file tree of a module version, with and without its manifest.
TreeFull == [f \in {GoMod, ABin} |-> IF f = GoMod THEN TextBytes ELSE BinBytes]
TreeNoMod == [f \in {ABin} |-> BinBytes]

\* The archive the registry holds for a version: a directory marker for the
\* wrapper, then the tree's files under the wrapper prefix.
GoodZip(module, version) ==
    LET prefix == module \o AtSign \o version \o Slash
    IN  [valid |-> TRUE,
         records |-> << [name |-> prefix, content |-> <<>>],
                        [name |-> prefix \o GoMod, content |-> TextBytes],
                        [name |-> prefix \o ABin, content |-> BinBytes] >>]

CorruptZip == [valid |-> FALSE, records |-> <<>>]

Response(status, n, data) ==
    [transport |-> "ok", cause |-> "", status |-> status, n |-> n, data |-> data]

\* What any endpoint may answer instead of a body.
FailResponses(empty) ==
    { Response(404, 0, empty), Response(410, 0, empty), Response(500, 0, empty),
      Response(200, maxZipSize + 1, empty),
      [transport |-> "doErr", cause |-> "context canceled", status |-> 0, n |-> 0,
       data |-> empty],
      [transport |-> "readErr", cause |-> "context canceled", status |-> 200, n |-> 5,
       data |-> empty] }

TextResponse(text) == Response(200, Len(text), text)

MetaFor(version) ==
    Str(<<"{">>) \o VersionKey \o version \o <<34>> \o Str(<<"}">>)

ListResponses ==
    FailResponses(<<>>)
    \cup { TextResponse(V1 \o Newline \o Newline \o Str(<<" ">>) \o V2 \o Newline) }

LatestResponses ==
    FailResponses(<<>>)
    \cup { TextResponse(MetaFor(V1)), TextResponse(MetaFor(V2)),
           TextResponse(Str(<<"{","}">>)),
           TextResponse(Str(<<"{">>) \o VersionKey \o V1) }

\* The manifest endpoint answers a failure, a manifest, or bytes that are not
\* text.
ModResponses ==
    FailResponses(<<>>) \cup { TextResponse(TextBytes), TextResponse(BinBytes) }

ZipResponses(module, version) ==
    FailResponses(CorruptZip)
    \cup { Response(200, 300, GoodZip(module, version)), Response(200, 22, CorruptZip) }

\* ------------------------------------------------------------------------
\* State
\* ------------------------------------------------------------------------

VARIABLES
    disk,       \* the filesystem: path -> node (module cache and workspace)
    entries,    \* ZipCache.entries: key -> entry
    nextId,     \* the next ZipEntry allocated
    calls,      \* per handler goroutine: the call it is running
    zipLog,     \* the archive requests issued so far, in order
    cachedOK,   \* keys for which a call has completed a download and Put
    ncalls,     \* calls started
    overlap,    \* whether a call has started while another was running
    getIn,      \* a request and response handed to ProxyClient.get
    getOut,     \* what get returned for it
    unitIn,     \* the arguments of a component function called on its own
    unitOut,    \* what that function returned
    mu          \* ZipCache.mu: the goroutine holding it, or NoHolder

vars == <<disk, entries, nextId, calls, zipLog, cachedOK, ncalls, overlap, getIn, getOut,
          unitIn, unitOut, mu>>
resolverVars == <<disk, entries, nextId, calls, zipLog, cachedOK, ncalls, overlap, mu>>
clientVars == <<getIn, getOut, unitIn, unitOut>>

Idle ==
    [pc |-> "idle", op |-> "none", module |-> <<>>, version |-> <<>>, path |-> <<>>,
     resolved |-> <<>>, body |-> NoBody, result |-> NoResult,
     net |-> <<>>, cacheOps |-> <<>>, mirrorOps |-> <<>>, suggests |-> <<>>,
     startCached |-> {}, built |-> NilEntry]

\* The inputs of the four tools.
Inputs ==
    { [op |-> "list_versions", module |-> ModA, version |-> <<>>, path |-> <<>>] }
    \cup { [op |-> "read_mod", module |-> ModA, version |-> v, path |-> <<>>] :
             v \in {V1, LatestMixed} }
    \cup { [op |-> o, module |-> ModA, version |-> v, path |-> f] :
             o \in {"list_files", "read_file"}, v \in {V1, LatestMixed}, f \in Paths }

MirrorPath(version) == ModDir(ModCacheDir, ModA, version)

\* What the module cache may hold for a version, and the workspace for the
\* module's last segment.
MirrorNodes == { NoNode, DirNode(TreeFull), DirNode(TreeNoMod) }
WorkspaceNodes == { NoNode, DirNode(<<>>) }

NoGet == [url |-> <<>>, resp |-> Response(0, 0, <<>>)]
NoGetOut == [returned |-> FALSE, err |-> NoErr, body |-> NoBody]
NoUnit == [fn |-> "none"]
NoHolder == "none"

InitResolver ==
    /\ disk \in { [path \in {MirrorPath(V1), WorkspacePath} |->
                     IF path = WorkspacePath THEN w ELSE m] :
                  m \in MirrorNodes, w \in WorkspaceNodes }
    /\ entries = <<>>
    /\ nextId = 1
    /\ calls = [p \in Procs |-> Idle]
    /\ zipLog = <<>>
    /\ cachedOK = {}
    /\ ncalls = 0
    /\ overlap = FALSE
    /\ mu = NoHolder

Init ==
    /\ InitResolver
    /\ getIn = NoGet
    /\ getOut = NoGetOut
    /\ unitIn = NoUnit
    /\ unitOut = NoUnit

\* A request the handler made: the URL and what the registry answered.
Req(url, resp) == [url |-> url, resp |-> resp]

\* A call on the ZipCache and a call on the ModCache, as the handler made it.
CacheOp(op, module, version) == [op |-> op, module |-> module, version |-> version]
MirrorOp(op, module, version) == [op |-> op, module |-> module, version |-> version]

Running(c) == c.pc \notin {"idle", "done"}

Done(call, result) == [call EXCEPT !.pc = "done", !.result = result]

\* ------------------------------------------------------------------------
\* The handlers, one action per step between blocking points
\* ------------------------------------------------------------------------

\* A tool call arrives with one of the given inputs: the SDK runs its handler
\* on a goroutine.
StartWith(p, inputs) ==
    /\ calls[p].pc = "idle"
    /\ ncalls < MaxCalls
    /\ \E in \in inputs :
         calls' = [calls EXCEPT ![p] =
                     [Idle EXCEPT !.pc = IF in.op = "list_versions" THEN "list" ELSE "resolve",
                                  !.op = in.op, !.module = in.module,
                                  !.version = in.version, !.path = in.path,
                                  !.startCached = cachedOK]]
    /\ ncalls' = ncalls + 1
    /\ overlap' = (overlap \/ \E q \in Procs \ {p} : Running(calls[q]))
    /\ UNCHANGED <<disk, entries, nextId, zipLog, cachedOK, clientVars, mu>>

Start(p) == StartWith(p, Inputs)

\* Mutant: a failed latest-metadata request fails list-versions.
HandleListVersionsChecksLatest(p) ==
    LET c == calls[p] IN
    /\ c.pc = "list"
    /\ \E r1 \in ListResponses, r2 \in LatestResponses :
         LET lv == ListVersions(c.module, r1)
             la == Latest(c.module, r2)
         IN  calls' = [calls EXCEPT ![p] =
                IF IsErr(lv.err)
                THEN IF ErrorsIs(lv.err, ErrModuleNotFound)
                     THEN Done([c EXCEPT !.net = <<Req(ListURL(c.module), r1)>>,
                                         !.suggests = <<c.module>>],
                               notFoundResult(c.module, Suggest(disk, LocalDir, c.module)))
                     ELSE Done([c EXCEPT !.net = <<Req(ListURL(c.module), r1)>>],
                               errResult(lv.err))
                ELSE IF IsErr(la.err)
                THEN Done([c EXCEPT !.net = <<Req(ListURL(c.module), r1),
                                              Req(LatestURL(c.module), r2)>>],
                          errResult(la.err))
                ELSE Done([c EXCEPT !.net = <<Req(ListURL(c.module), r1),
                                              Req(LatestURL(c.module), r2)>>],
                          textResult(ListVersionsText(c.module, lv.versions, la.text)))]
    /\ UNCHANGED <<disk, entries, nextId, zipLog, cachedOK, ncalls, overlap, clientVars, mu>>

\* Mutant: a version-list request that failed otherwise than by not-found is
\* sent a second time.
HandleListVersionsRetries(p) ==
    LET c == calls[p] IN
    /\ c.pc = "list"
    /\ \E r0 \in ListResponses, r1 \in ListResponses, r2 \in LatestResponses :
         LET l0 == ListVersions(c.module, r0)
             retried == IsErr(l0.err) /\ ~ErrorsIs(l0.err, ErrModuleNotFound)
             lv == IF retried THEN ListVersions(c.module, r1) ELSE l0
             la == Latest(c.module, r2)
             sent == IF retried
                     THEN <<Req(ListURL(c.module), r0), Req(ListURL(c.module), r1)>>
                     ELSE <<Req(ListURL(c.module), r0)>>
         IN  calls' = [calls EXCEPT ![p] =
                IF IsErr(lv.err)
                THEN IF ErrorsIs(lv.err, ErrModuleNotFound)
                     THEN Done([c EXCEPT !.net = sent, !.suggests = <<c.module>>],
                               notFoundResult(c.module, Suggest(disk, LocalDir, c.module)))
                     ELSE Done([c EXCEPT !.net = sent], errResult(lv.err))
                ELSE Done([c EXCEPT !.net = sent \o <<Req(LatestURL(c.module), r2)>>],
                          textResult(ListVersionsText(c.module, lv.versions, la.text)))]
    /\ UNCHANGED <<disk, entries, nextId, zipLog, cachedOK, ncalls, overlap, clientVars, mu>>

\* handleListVersions
HandleListVersions(p) ==
    LET c == calls[p] IN
    /\ c.pc = "list"
    /\ \E r1 \in ListResponses, r2 \in LatestResponses :
         LET lv == ListVersions(c.module, r1)
             la == Latest(c.module, r2)
         IN  calls' = [calls EXCEPT ![p] =
                IF IsErr(lv.err)
                THEN IF ErrorsIs(lv.err, ErrModuleNotFound)
                     THEN Done([c EXCEPT !.net = <<Req(ListURL(c.module), r1)>>,
                                         !.suggests = <<c.module>>],
                               notFoundResult(c.module, Suggest(disk, LocalDir, c.module)))
                     ELSE Done([c EXCEPT !.net = <<Req(ListURL(c.module), r1)>>],
                               errResult(lv.err))
                ELSE Done([c EXCEPT !.net = <<Req(ListURL(c.module), r1),
                                              Req(LatestURL(c.module), r2)>>],
                          textResult(ListVersionsText(c.module, lv.versions, la.text)))]
    /\ UNCHANGED <<disk, entries, nextId, zipLog, cachedOK, ncalls, overlap, clientVars, mu>>

\* resolveVersion, at the head of the three other handlers
ResolveStep(p) ==
    LET c == calls[p] IN
    /\ c.pc = "resolve"
    /\ \E resp \in LatestResponses :
         LET r   == resolveVersion(c.module, c.version, resp)
             net == IF IsLatestAlias(c.version)
                    THEN <<Req(LatestURL(c.module), resp)>> ELSE <<>>
         IN  calls' = [calls EXCEPT ![p] =
                IF IsErr(r.err)
                THEN Done([c EXCEPT !.net = net], errResult(r.err))
                ELSE [c EXCEPT !.net = net, !.resolved = r.version,
                               !.pc = IF c.op = "read_mod" THEN "mod" ELSE "mirror"]]
    /\ UNCHANGED <<disk, entries, nextId, zipLog, cachedOK, ncalls, overlap, clientVars, mu>>

\* Mutant: a failed module-cache read fails the call, as in handleReadFile.
HandleReadModNoFallback(p) ==
    LET c   == calls[p]
        has == HasModule(disk, ModCacheDir, c.module, c.resolved)
        rf  == ModReadFile(disk, ModCacheDir, c.module, c.resolved, GoMod)
        hasOp == MirrorOp("HasModule", c.module, c.resolved)
        readOp == MirrorOp("ReadFile", c.module, c.resolved)
    IN
    /\ c.pc = "mod"
    /\ \E resp \in ModResponses :
         LET rm == ReadMod(c.module, c.resolved, resp)
         IN  calls' = [calls EXCEPT ![p] =
                IF has
                THEN Done([c EXCEPT !.mirrorOps = <<hasOp, readOp>>],
                          IF IsErr(rf.err) THEN errResult(rf.err) ELSE textResult(rf.text))
                ELSE LET c2 == [c EXCEPT
                                  !.mirrorOps = <<hasOp>>,
                                  !.net = @ \o <<Req(ModURL(c.module, c.resolved), resp)>>]
                     IN  IF IsErr(rm.err) THEN Done(c2, errResult(rm.err))
                         ELSE Done(c2, textResult(rm.text))]
    /\ UNCHANGED <<disk, entries, nextId, zipLog, cachedOK, ncalls, overlap, clientVars, mu>>

\* handleReadMod after resolveVersion
HandleReadMod(p) ==
    LET c   == calls[p]
        has == HasModule(disk, ModCacheDir, c.module, c.resolved)
        rf  == ModReadFile(disk, ModCacheDir, c.module, c.resolved, GoMod)
        hasOp == MirrorOp("HasModule", c.module, c.resolved)
        readOp == MirrorOp("ReadFile", c.module, c.resolved)
    IN
    /\ c.pc = "mod"
    /\ \E resp \in ModResponses :
         LET rm == ReadMod(c.module, c.resolved, resp)
         IN  calls' = [calls EXCEPT ![p] =
                IF has /\ ~IsErr(rf.err)
                THEN Done([c EXCEPT !.mirrorOps = <<hasOp, readOp>>], textResult(rf.text))
                ELSE LET c2 == [c EXCEPT
                                  !.mirrorOps = IF has THEN <<hasOp, readOp>> ELSE <<hasOp>>,
                                  !.net = @ \o <<Req(ModURL(c.module, c.resolved), resp)>>]
                     IN  IF IsErr(rm.err) THEN Done(c2, errResult(rm.err))
                         ELSE Done(c2, textResult(rm.text))]
    /\ UNCHANGED <<disk, entries, nextId, zipLog, cachedOK, ncalls, overlap, clientVars, mu>>

\* handleListFiles from the slice the serving tier returned: the sort, the
\* header with the count, one line per path.
ListFilesResult(c, files) ==
    textResult(ListFilesText(c.module, c.resolved, c.path, SortSlice(files)))

\* What an entry answers to the call: entry.ListFiles and the sort and text
\* of handleListFiles, or entry.ReadFile.
ServeFromEntry(c, entry) ==
    IF c.op = "list_files"
    THEN textResult(ListFilesText(c.module, c.resolved, c.path,
                                  SortStrings(ZipListFiles(entry, c.path))))
    ELSE LET r == ZipReadFile(entry, c.path)
         IN  IF IsErr(r.err) THEN errResult(r.err) ELSE textResult(r.text)

\* What the module cache answers to the call.
ServeFromModCache(fs, c) ==
    IF c.op = "list_files"
    THEN LET r == ModListFiles(fs, ModCacheDir, c.module, c.resolved, c.path)
         IN  IF IsErr(r.err) THEN errResult(r.err)
             ELSE textResult(ListFilesText(c.module, c.resolved, c.path,
                                           SortStrings(r.files)))
    ELSE LET r == ModReadFile(fs, ModCacheDir, c.module, c.resolved, c.path)
         IN  IF IsErr(r.err) THEN errResult(r.err) ELSE textResult(r.text)

\* Mutant: an entry already in the ZipCache is used before the module cache
\* is looked at.
MirrorStepCacheFirst(p) ==
    LET c   == calls[p]
        has == HasModule(disk, ModCacheDir, c.module, c.resolved)
        hasOp == MirrorOp("HasModule", c.module, c.resolved)
        useOp == MirrorOp(IF c.op = "list_files" THEN "ListFiles" ELSE "ReadFile",
                          c.module, c.resolved)
        entry == ZipCacheGet(entries, c.module, c.resolved)
        c2    == [c EXCEPT !.cacheOps = @ \o <<CacheOp("Get", c.module, c.resolved)>>]
    IN
    /\ c.pc = "mirror"
    /\ calls' = [calls EXCEPT ![p] =
          IF entry # NilEntry THEN Done(c2, ServeFromEntry(c2, entry))
          ELSE IF has
          THEN Done([c EXCEPT !.mirrorOps = <<hasOp, useOp>>], ServeFromModCache(disk, c))
          ELSE [c EXCEPT !.mirrorOps = <<hasOp>>, !.pc = "get"]]
    /\ UNCHANGED <<disk, entries, nextId, zipLog, cachedOK, ncalls, overlap, clientVars, mu>>

\* handleListFiles / handleReadFile: the module cache first.
MirrorStep(p) ==
    LET c   == calls[p]
        has == HasModule(disk, ModCacheDir, c.module, c.resolved)
        hasOp == MirrorOp("HasModule", c.module, c.resolved)
        useOp == MirrorOp(IF c.op = "list_files" THEN "ListFiles" ELSE "ReadFile",
                          c.module, c.resolved)
    IN
    /\ c.pc = "mirror"
    /\ calls' = [calls EXCEPT ![p] =
          IF has
          THEN Done([c EXCEPT !.mirrorOps = <<hasOp, useOp>>], ServeFromModCache(disk, c))
          ELSE [c EXCEPT !.mirrorOps = <<hasOp>>, !.pc = "get"]]
    /\ UNCHANGED <<disk, entries, nextId, zipLog, cachedOK, ncalls, overlap, clientVars, mu>>

\* Mutant: a key whose download or parse failed before is answered with an
\* error without a new request.
GetStepReplaysFailure(p) ==
    LET c      == calls[p]
        entry  == ZipCacheGet(entries, c.module, c.resolved)
        c2     == [c EXCEPT !.cacheOps = @ \o <<CacheOp("Get", c.module, c.resolved)>>]
        failed == \E i \in DOMAIN zipLog :
                     zipLog[i].key = CacheKey(c.module, c.resolved) /\ ~zipLog[i].ok
    IN
    /\ c.pc = "get"
    /\ mu = NoHolder
    /\ calls' = [calls EXCEPT ![p] =
          IF entry # NilEntry THEN Done(c2, ServeFromEntry(c2, entry))
          ELSE IF failed THEN Done(c2, errResult(Wrap("download zip", ErrModuleNotFound)))
          ELSE [c2 EXCEPT !.pc = "download"]]
    /\ UNCHANGED <<disk, entries, nextId, zipLog, cachedOK, ncalls, overlap, clientVars, mu>>

\* getOrDownload: cache.Get as one step (Lock, lookup, Unlock)
GetStep(p) ==
    LET c     == calls[p]
        entry == ZipCacheGet(entries, c.module, c.resolved)
        c2    == [c EXCEPT !.cacheOps = @ \o <<CacheOp("Get", c.module, c.resolved)>>]
    IN
    /\ c.pc = "get"
    /\ mu = NoHolder
    /\ calls' = [calls EXCEPT ![p] =
          IF entry # NilEntry THEN Done(c2, ServeFromEntry(c2, entry))
          ELSE [c2 EXCEPT !.pc = "download"]]
    /\ UNCHANGED <<disk, entries, nextId, zipLog, cachedOK, ncalls, overlap, clientVars, mu>>

\* getOrDownload: proxy.DownloadZip, the registry answering with one of the
\* given responses
DownloadWith(p, responses) ==
    LET c == calls[p] IN
    /\ c.pc = "download"
    /\ \E resp \in responses :
         LET r  == DownloadZip(c.module, c.resolved, resp)
             c2 == [c EXCEPT !.net = @ \o <<Req(ZipURL(c.module, c.resolved), resp)>>]
         IN  /\ calls' = [calls EXCEPT ![p] =
                   IF IsErr(r.err) THEN Done(c2, errResult(Wrap("download zip", r.err)))
                   ELSE [c2 EXCEPT !.pc = "put", !.body = r.data]]
             /\ zipLog' = Append(zipLog, [key |-> CacheKey(c.module, c.resolved),
                                          ok |-> ~IsErr(r.err) /\ r.data.data.valid])
    /\ UNCHANGED <<disk, entries, nextId, cachedOK, ncalls, overlap, clientVars, mu>>

DownloadStep(p) == DownloadWith(p, ZipResponses(calls[p].module, calls[p].resolved))

\* getOrDownload: cache.Put (parse, index, insert under the lock), then the
\* handler's use of the entry Put returned
PutStep(p) ==
    LET c   == calls[p]
        key == CacheKey(c.module, c.resolved)
        b   == ZipBuildEntry(c.module, c.resolved, c.body.data, nextId)
        c2  == [c EXCEPT !.cacheOps = @ \o <<CacheOp("Put", c.module, c.resolved)>>]
    IN
    /\ c.pc = "put"
    /\ mu = NoHolder
    /\ IF IsErr(b.err)
       THEN /\ calls' = [calls EXCEPT ![p] = Done(c2, errResult(Wrap("cache zip", b.err)))]
            /\ UNCHANGED <<entries, nextId, cachedOK>>
       ELSE /\ entries' = ZipCacheInsert(entries, c.module, c.resolved, b.entry)
            /\ nextId' = nextId + 1
            /\ cachedOK' = cachedOK \cup {key}
            /\ calls' = [calls EXCEPT ![p] =
                  Done([c2 EXCEPT !.built = b.entry], ServeFromEntry(c2, b.entry))]
    /\ UNCHANGED <<disk, zipLog, ncalls, overlap, clientVars, mu>>

\* The handler has returned; the goroutine is free for the next call.
Return(p) ==
    /\ calls[p].pc = "done"
    /\ calls' = [calls EXCEPT ![p] = Idle]
    /\ UNCHANGED <<disk, entries, nextId, zipLog, cachedOK, ncalls, overlap, clientVars, mu>>

\* Someone else changes the module cache or the workspace (go mod download,
\* go clean -modcache, mkdir).
DiskChange ==
    /\ \/ \E m \in MirrorNodes : disk' = [disk EXCEPT ![MirrorPath(V1)] = m]
       \/ \E w \in WorkspaceNodes : disk' = [disk EXCEPT ![WorkspacePath] = w]
    /\ disk' # disk
    /\ UNCHANGED <<entries, nextId, calls, zipLog, cachedOK, ncalls, overlap, clientVars, mu>>

\* ProxyClient.get applied to a request and the response to it.
DoGet ==
    /\ ~getOut.returned
    /\ getOut' = [returned |-> TRUE,
                  err |-> get(getIn.url, getIn.resp).err,
                  body |-> get(getIn.url, getIn.resp).body]
    /\ UNCHANGED <<getIn, unitIn, unitOut, resolverVars>>

\* One call at a time, any tool and any input; the disk changes under it.
Next ==
    \/ \E p \in {"p1"} :
         \/ Start(p)
         \/ HandleListVersions(p)
         \/ ResolveStep(p)
         \/ HandleReadMod(p)
         \/ MirrorStep(p)
         \/ GetStep(p)
         \/ DownloadStep(p)
         \/ PutStep(p)
         \/ Return(p)
    \/ DiskChange

Spec == Init /\ [][Next]_vars

\* Concurrent list-files and read-file calls for one module.
ConcInputs ==
    { in \in Inputs :
        in.op \in {"list_files", "read_file"} /\ in.version = V1 /\ in.path = GoMod }

StartConc(p) == StartWith(p, ConcInputs)

NextConc ==
    \E p \in Procs :
        \/ StartConc(p)
        \/ ResolveStep(p)
        \/ MirrorStep(p)
        \/ GetStep(p)
        \/ DownloadStep(p)
        \/ PutStep(p)
        \/ Return(p)

InitConc == Init /\ disk[WorkspacePath] = NoNode

SpecConc == InitConc /\ [][NextConc]_vars

\* Concurrent list-files and read-file calls with ZipCache.mu as its own
\* steps: Lock, the map access with its Unlock, and the parse outside the
\* lock. The registry may answer two downloads of one version with different
\* archives.
MaxLockCalls == 2

LockInputs ==
    { [op |-> o, module |-> ModA, version |-> v, path |-> GoMod] :
        o \in {"list_files", "read_file"}, v \in ConcreteVersions }

OtherZip(module, version) ==
    LET prefix == module \o AtSign \o version \o Slash
    IN  [valid |-> TRUE,
         records |-> << [name |-> prefix \o GoMod, content |-> AccentText] >>]

LockZipResponses(module, version) ==
    { Response(200, 300, GoodZip(module, version)),
      Response(200, 120, OtherZip(module, version)),
      Response(200, 22, CorruptZip),
      Response(404, 0, CorruptZip) }

\* A list-files or read-file call for a concrete version with no module
\* directory: resolveVersion and HasModule leave it at getOrDownload.
StartLockWith(p, inputs) ==
    /\ calls[p].pc = "idle"
    /\ ncalls < MaxLockCalls
    /\ \E in \in inputs :
         calls' = [calls EXCEPT ![p] =
                     [Idle EXCEPT !.pc = "get", !.op = in.op, !.module = in.module,
                                  !.version = in.version, !.path = in.path,
                                  !.resolved = in.version,
                                  !.mirrorOps = <<MirrorOp("HasModule", in.module, in.version)>>,
                                  !.startCached = cachedOK]]
    /\ ncalls' = ncalls + 1
    /\ overlap' = (overlap \/ \E q \in Procs \ {p} : Running(calls[q]))
    /\ UNCHANGED <<disk, entries, nextId, zipLog, cachedOK, clientVars, mu>>

StartLock(p) == StartLockWith(p, LockInputs)

DownloadLock(p) ==
    DownloadWith(p, LockZipResponses(calls[p].module, calls[p].resolved))

\* ZipCache.Get: c.mu.Lock()
GetLock(p) ==
    /\ calls[p].pc = "get"
    /\ mu = NoHolder
    /\ mu' = p
    /\ calls' = [calls EXCEPT ![p].pc = "get locked"]
    /\ UNCHANGED <<disk, entries, nextId, zipLog, cachedOK, ncalls, overlap, clientVars>>

\* Mutant: on a miss the lock is kept until the entry is inserted.
GetLookupKeepsLock(p) ==
    LET c     == calls[p]
        entry == ZipCacheGet(entries, c.module, c.resolved)
        c2    == [c EXCEPT !.cacheOps = @ \o <<CacheOp("Get", c.module, c.resolved)>>]
    IN
    /\ c.pc = "get locked"
    /\ mu = p
    /\ mu' = IF entry # NilEntry THEN NoHolder ELSE p
    /\ calls' = [calls EXCEPT ![p] =
          IF entry # NilEntry THEN Done(c2, ServeFromEntry(c2, entry))
          ELSE [c2 EXCEPT !.pc = "download"]]
    /\ UNCHANGED <<disk, entries, nextId, zipLog, cachedOK, ncalls, overlap, clientVars>>

\* ZipCache.Get: the lookup and the deferred Unlock, then getOrDownload's
\* test of the entry
GetLookup(p) ==
    LET c     == calls[p]
        entry == ZipCacheGet(entries, c.module, c.resolved)
        c2    == [c EXCEPT !.cacheOps = @ \o <<CacheOp("Get", c.module, c.resolved)>>]
    IN
    /\ c.pc = "get locked"
    /\ mu = p
    /\ mu' = NoHolder
    /\ calls' = [calls EXCEPT ![p] =
          IF entry # NilEntry THEN Done(c2, ServeFromEntry(c2, entry))
          ELSE [c2 EXCEPT !.pc = "download"]]
    /\ UNCHANGED <<disk, entries, nextId, zipLog, cachedOK, ncalls, overlap, clientVars>>

\* ZipCache.Put: parse and index, before the lock is taken
PutParse(p) ==
    LET c  == calls[p]
        b  == ZipBuildEntry(c.module, c.resolved, c.body.data, nextId)
        c2 == [c EXCEPT !.cacheOps = @ \o <<CacheOp("Put", c.module, c.resolved)>>]
    IN
    /\ c.pc = "put"
    /\ IF IsErr(b.err)
       THEN /\ calls' = [calls EXCEPT ![p] = Done(c2, errResult(Wrap("cache zip", b.err)))]
            /\ UNCHANGED nextId
       ELSE /\ calls' = [calls EXCEPT ![p] = [c2 EXCEPT !.pc = "put lock", !.built = b.entry]]
            /\ nextId' = nextId + 1
    /\ UNCHANGED <<disk, entries, zipLog, cachedOK, ncalls, overlap, clientVars, mu>>

\* ZipCache.Put: c.mu.Lock()
PutLock(p) ==
    /\ calls[p].pc = "put lock"
    /\ mu = NoHolder
    /\ mu' = p
    /\ calls' = [calls EXCEPT ![p].pc = "put locked"]
    /\ UNCHANGED <<disk, entries, nextId, zipLog, cachedOK, ncalls, overlap, clientVars>>

\* ZipCache.Put: the insertion and Unlock, then the handler's use of the
\* entry Put returned
PutInsert(p) ==
    LET c == calls[p] IN
    /\ c.pc = "put locked"
    /\ mu = p
    /\ mu' = NoHolder
    /\ entries' = ZipCacheInsert(entries, c.module, c.resolved, c.built)
    /\ cachedOK' = cachedOK \cup {CacheKey(c.module, c.resolved)}
    /\ calls' = [calls EXCEPT ![p] = Done(c, ServeFromEntry(c, c.built))]
    /\ UNCHANGED <<disk, nextId, zipLog, ncalls, overlap, clientVars>>

NextLock ==
    \E p \in Procs :
        \/ StartLock(p)
        \/ GetLock(p)
        \/ GetLookup(p)
        \/ DownloadLock(p)
        \/ PutParse(p)
        \/ PutLock(p)
        \/ PutInsert(p)
        \/ Return(p)

InitLock ==
    /\ Init
    /\ disk[MirrorPath(V1)] = NoNode
    /\ disk[WorkspacePath] = NoNode

SpecLock == InitLock /\ [][NextLock]_vars

\* The same steps for read-file calls alone, the registry answering with the
\* archive or with bytes that do not parse.
FairInputs == { in \in LockInputs : in.op = "read_file" }

FairZipResponses(module, version) ==
    { Response(200, 300, GoodZip(module, version)), Response(200, 22, CorruptZip) }

StartFair(p) == StartLockWith(p, FairInputs)

DownloadFair(p) ==
    DownloadWith(p, FairZipResponses(calls[p].module, calls[p].resolved))

\* A step of a call that has started.
Proceed(p) ==
    \/ GetLock(p)
    \/ GetLookup(p)
    \/ DownloadFair(p)
    \/ PutParse(p)
    \/ PutLock(p)
    \/ PutInsert(p)

NextFair == \E p \in Procs : StartFair(p) \/ Proceed(p) \/ Return(p)

\* The scheduler runs a goroutine that can take a step, a registry request
\* that was sent returns, and a free sync.Mutex is handed to a goroutine
\* asking for it. New calls need not arrive.
FairLock == \A p \in Procs : WF_vars(Proceed(p))

SpecLockFair == InitLock /\ [][NextFair]_vars /\ FairLock

\* The registry client alone: every request URL against every kind of
\* response, with body sizes around the ceiling.
Statuses == {200, 201, 204, 403, 404, 410, 500, 503}

BodySizes ==
    (0..SizeSpread) \cup ((maxZipSize - SizeSpread)..(maxZipSize + SizeSpread))

Payload == Str(<<"b","o","d","y">>)

GetInputs ==
    { [url |-> u, resp |-> r] :
        u \in {ListURL(ModA), LatestURL(ModA), ModURL(ModA, V1), ZipURL(ModA, V1)},
        r \in { [transport |-> t, cause |-> "context canceled", status |-> st,
                 n |-> n, data |-> Payload] :
                   t \in {"ok", "readErr"}, st \in Statuses, n \in BodySizes }
              \cup { [transport |-> "doErr", cause |-> c, status |-> 0, n |-> 0,
                      data |-> Payload] : c \in {"context canceled", "connection refused"} } }

InitGet ==
    /\ InitResolver
    /\ disk[MirrorPath(V1)] = NoNode
    /\ disk[WorkspacePath] = NoNode
    /\ getIn \in GetInputs
    /\ getOut = NoGetOut
    /\ unitIn = NoUnit
    /\ unitOut = NoUnit

NextGet == DoGet

SpecGet == InitGet /\ [][NextGet]_vars

\* The two tiers side by side: the module directory on disk and the archive
\* of the same file tree put into the ZipCache, each asked for the same path
\* or prefix.

SubC == Str(<<"s","u","b","/","c",".","t","x","t">>)
SubD == Str(<<"s","u","b","/","d",".","b","i","n">>)

TreeDeep ==
    [f \in {GoMod, ABin, SubC, SubD} |->
        IF f = GoMod THEN TextBytes
        ELSE IF f = ABin THEN BinBytes
        ELSE IF f = SubC THEN AccentText ELSE CutText]

TierTrees == { TreeFull, TreeNoMod, TreeDeep }

\* The directories of a tree: every proper slash-terminated prefix of a file.
TreeDirs(tree) ==
    { d \in UNION { { SubSeq(f, 1, i) : i \in 1..Len(f) } : f \in DOMAIN tree } :
        d[Len(d)] = Slash[1] }

\* The archive of a tree, as createTestZip and the registry build it: the
\* wrapper directory, then every directory marker and file under it by name.
ZipOf(module, version, tree) ==
    LET prefix == module \o AtSign \o version \o Slash
        names  == SortStrings(DOMAIN tree \cup TreeDirs(tree))
    IN  [valid |-> TRUE,
         records |-> << [name |-> prefix, content |-> <<>>] >>
                     \o [i \in DOMAIN names |->
                           [name |-> prefix \o names[i],
                            content |-> IF names[i] \in DOMAIN tree
                                        THEN tree[names[i]] ELSE <<>>]]]

TierPaths ==
    { <<>>, GoMod, ABin, SubC, SubD,
      Str(<<"s","u","b">>), Str(<<"s","u","b","/">>), Str(<<"n","o","n","e">>),
      Str(<<".","/","g","o",".","m","o","d">>), Str(<<"g","o",".","m","o","d","/">>),
      Str(<<"/","g","o",".","m","o","d">>),
      Str(<<"s","u","b","/",".",".","/","g","o",".","m","o","d">>),
      Str(<<"g","o",".","m","o","d","/","x">>) }

TierPrefixes ==
    { <<>>, GoMod, Str(<<"s","u","b">>), Str(<<"s","u","b","/">>), Str(<<"s">>),
      Str(<<"a",".">>), Str(<<"n","o","n","e">>), Str(<<".","/">>) }

TierInputs ==
    { [fn |-> "ReadFile", path |-> f] : f \in TierPaths }
    \cup { [fn |-> "ListFiles", path |-> f] : f \in TierPrefixes }

TierTree == disk[MirrorPath(V1)].tree

TierCall(op) ==
    [Idle EXCEPT !.op = op, !.module = ModA, !.version = V1, !.resolved = V1,
                 !.path = unitIn.path]

InitTiers ==
    /\ disk \in { [path \in {MirrorPath(V1), WorkspacePath} |->
                     IF path = WorkspacePath THEN NoNode ELSE DirNode(t)] :
                  t \in TierTrees }
    /\ entries = <<>>
    /\ nextId = 1
    /\ calls = [p \in Procs |-> Idle]
    /\ zipLog = <<>>
    /\ cachedOK = {}
    /\ ncalls = 0
    /\ overlap = FALSE
    /\ getIn = NoGet
    /\ getOut = NoGetOut
    /\ unitIn \in TierInputs
    /\ unitOut = NoUnit
    /\ mu = NoHolder

\* cache.Put of the archive of the tree that is on disk.
TierPut ==
    /\ entries = <<>>
    /\ LET b == ZipBuildEntry(ModA, V1, ZipOf(ModA, V1, TierTree), nextId)
       IN  entries' = ZipCacheInsert(entries, ModA, V1, b.entry)
    /\ nextId' = nextId + 1
    /\ UNCHANGED <<disk, calls, zipLog, cachedOK, ncalls, overlap, clientVars, mu>>

\* ReadFile on the entry and on the module directory, and what the
\* read_file handler makes of each.
TierReadFile ==
    /\ entries # <<>>
    /\ unitIn.fn = "ReadFile"
    /\ unitOut = NoUnit
    /\ LET entry == ZipCacheGet(entries, ModA, V1)
           c     == TierCall("read_file")
       IN  unitOut' = [fn |-> "ReadFile",
                       archive |-> ZipReadFile(entry, unitIn.path),
                       mirror |-> ModReadFile(disk, ModCacheDir, ModA, V1, unitIn.path),
                       fromEntry |-> ServeFromEntry(c, entry),
                       fromModCache |-> ServeFromModCache(disk, c)]
    /\ UNCHANGED <<unitIn, getIn, getOut, resolverVars>>

\* The names of a set in the order given: a tier's slice when it visits its
\* files in that order.
RECURSIVE InOrder(_, _)
InOrder(names, order) ==
    IF order = <<>> THEN <<>>
    ELSE (IF Head(order) \in names THEN <<Head(order)>> ELSE <<>>)
         \o InOrder(names, Tail(order))

\* One list_files call served by a tier that returned this slice.
ListFilesRun(tier, c, files) ==
    [tier |-> tier, listed |-> files, result |-> ListFilesResult(c, files)]

\* ListFiles on the entry (in any order of the map) and on the module
\* directory, and what the list_files handler makes of each; runs holds two
\* calls on each tier, the tier visiting its files in one order and in
\* another.
TierListFiles ==
    /\ entries # <<>>
    /\ unitIn.fn = "ListFiles"
    /\ unitOut = NoUnit
    /\ LET entry == ZipCacheGet(entries, ModA, V1)
           c     == TierCall("list_files")
           m     == ModListFiles(disk, ModCacheDir, ModA, V1, unitIn.path)
       IN  \E order, again \in MapOrders(DOMAIN entry.files) :
              unitOut' = [fn |-> "ListFiles",
                          archive |-> ZipListFilesOrdered(entry, unitIn.path, order),
                          mirror |-> m,
                          fromEntry |-> ServeFromEntry(c, entry),
                          fromModCache |-> ServeFromModCache(disk, c),
                          runs |-> << ListFilesRun("archive", c,
                                          ZipListFilesOrdered(entry, unitIn.path, order)),
                                      ListFilesRun("archive", c,
                                          ZipListFilesOrdered(entry, unitIn.path, again)),
                                      ListFilesRun("mirror", c, InOrder(m.files, order)),
                                      ListFilesRun("mirror", c, InOrder(m.files, again)) >>]
    /\ UNCHANGED <<unitIn, getIn, getOut, resolverVars>>

NextTiers == TierPut \/ TierReadFile \/ TierListFiles

SpecTiers == InitTiers /\ [][NextTiers]_vars

\* The ZipCache alone: any sequence of Put and Get, on keys whose strings may
\* hold an "@", with archives that parse, that do not, and whose record names
\* are of every shape.
MaxOps == 3

ModX == Str(<<"x">>)
ModXatY == Str(<<"x","@","y">>)
YatV1 == Str(<<"y","@","v","1">>)

CacheKeys ==
    { [module |-> ModX, version |-> V1], [module |-> ModX, version |-> V2],
      [module |-> ModX, version |-> YatV1], [module |-> ModXatY, version |-> V1] }

\* An archive with the wrapper directory, a nested directory marker, a file,
\* a file whose path inside the module starts with the wrapper's name, a
\* record outside the wrapper, and a name that occurs twice.
OddZip(module, version) ==
    LET prefix == module \o AtSign \o version \o Slash
    IN  [valid |-> TRUE,
         records |-> << [name |-> prefix, content |-> <<>>],
                        [name |-> prefix \o Str(<<"s","u","b","/">>), content |-> <<>>],
                        [name |-> prefix \o GoMod, content |-> BinBytes],
                        [name |-> prefix \o prefix \o ABin, content |-> BinBytes],
                        [name |-> Str(<<"o","/">>) \o ABin, content |-> BinBytes],
                        [name |-> Str(<<"o","/">>), content |-> <<>>],
                        [name |-> prefix \o GoMod, content |-> TextBytes] >>]

CacheArchives(module, version) ==
    { GoodZip(module, version), OddZip(module, version), CorruptZip }

\* unitIn is the sequence of calls made so far, unitOut of what each returned.
InitCache ==
    /\ InitResolver
    /\ disk[MirrorPath(V1)] = NoNode
    /\ disk[WorkspacePath] = NoNode
    /\ getIn = NoGet
    /\ getOut = NoGetOut
    /\ unitIn = <<>>
    /\ unitOut = <<>>

\* cache.Put(module, version, data)
CachePut ==
    /\ Len(unitIn) < MaxOps
    /\ \E k \in CacheKeys :
         \E data \in CacheArchives(k.module, k.version) :
            LET r == ZipCachePut(entries, k.module, k.version, data, nextId)
            IN  /\ entries' = r.tbl
                /\ nextId' = nextId + 1
                /\ unitIn' = Append(unitIn, [fn |-> "Put", module |-> k.module,
                                             version |-> k.version, data |-> data])
                /\ unitOut' = Append(unitOut, [err |-> r.err, entry |-> r.entry])
    /\ UNCHANGED <<disk, calls, zipLog, cachedOK, ncalls, overlap, getIn, getOut, mu>>

\* cache.Get(module, version)
CacheGet ==
    /\ Len(unitIn) < MaxOps
    /\ \E k \in CacheKeys :
         /\ unitIn' = Append(unitIn, [fn |-> "Get", module |-> k.module,
                                      version |-> k.version, data |-> CorruptZip])
         /\ unitOut' = Append(unitOut, [err |-> NoErr,
                                        entry |-> ZipCacheGet(entries, k.module, k.version)])
    /\ UNCHANGED <<getIn, getOut, resolverVars>>

NextCache == CachePut \/ CacheGet

SpecCache == InitCache /\ [][NextCache]_vars

\* The ZipCache in use over a longer run: up to MaxUse calls of Put, Get and,
\* on an entry a caller got from one of them, ListFiles and ReadFile.
\* unitIn is the sequence of calls made so far, unitOut of what each returned.
MaxUse == 4

UseKeys == { [module |-> ModX, version |-> v] : v \in ConcreteVersions }
UseArchives(module, version) == { GoodZip(module, version), CorruptZip }

UseCall(fn, module, version, data, path) ==
    [fn |-> fn, module |-> module, version |-> version, data |-> data, path |-> path]

UseResult(err, entry, files, text) ==
    [err |-> err, entry |-> entry, files |-> files, text |-> text]

\* The entries callers hold: returned by an earlier Put or Get.
HeldEntries == { unitOut[i].entry : i \in DOMAIN unitOut } \ {NilEntry}

\* cache.Put(module, version, data)
UsePut ==
    /\ Len(unitIn) < MaxUse
    /\ \E k \in UseKeys :
         \E data \in UseArchives(k.module, k.version) :
            LET r == ZipCachePut(entries, k.module, k.version, data, nextId)
            IN  /\ entries' = r.tbl
                /\ nextId' = nextId + 1
                /\ unitIn' = Append(unitIn, UseCall("Put", k.module, k.version, data, <<>>))
                /\ unitOut' = Append(unitOut, UseResult(r.err, r.entry, {}, <<>>))
    /\ UNCHANGED <<disk, calls, zipLog, cachedOK, ncalls, overlap, getIn, getOut, mu>>

\* Mutant: a lookup of an absent key stores the nil entry under it.
UseGetInserts ==
    /\ Len(unitIn) < MaxUse
    /\ \E k \in UseKeys :
         LET e == ZipCacheGet(entries, k.module, k.version)
         IN  /\ unitIn' = Append(unitIn, UseCall("Get", k.module, k.version, CorruptZip, <<>>))
             /\ unitOut' = Append(unitOut, UseResult(NoErr, e, {}, <<>>))
             /\ entries' = ZipCacheInsert(entries, k.module, k.version, e)
    /\ UNCHANGED <<disk, nextId, calls, zipLog, cachedOK, ncalls, overlap, getIn, getOut, mu>>

\* cache.Get(module, version)
UseGet ==
    /\ Len(unitIn) < MaxUse
    /\ \E k \in UseKeys :
         /\ unitIn' = Append(unitIn, UseCall("Get", k.module, k.version, CorruptZip, <<>>))
         /\ unitOut' = Append(unitOut,
                              UseResult(NoErr, ZipCacheGet(entries, k.module, k.version),
                                        {}, <<>>))
    /\ UNCHANGED <<getIn, getOut, resolverVars>>

\* entry.ListFiles(prefix)
UseListFiles ==
    /\ Len(unitIn) < MaxUse
    /\ \E e \in HeldEntries :
         /\ unitIn' = Append(unitIn, UseCall("ListFiles", <<>>, <<>>, CorruptZip, <<>>))
         /\ unitOut' = Append(unitOut, UseResult(NoErr, e, ZipListFiles(e, <<>>), <<>>))
    /\ UNCHANGED <<getIn, getOut, resolverVars>>

\* entry.ReadFile(path)
UseReadFile ==
    /\ Len(unitIn) < MaxUse
    /\ \E e \in HeldEntries, path \in {GoMod, ABin} :
         LET r == ZipReadFile(e, path)
         IN  /\ unitIn' = Append(unitIn, UseCall("ReadFile", <<>>, <<>>, CorruptZip, path))
             /\ unitOut' = Append(unitOut, UseResult(r.err, e, {}, r.text))
    /\ UNCHANGED <<getIn, getOut, resolverVars>>

NextUse == UsePut \/ UseGet \/ UseListFiles \/ UseReadFile

SpecUse == InitCache /\ [][NextUse]_vars

\* encodePath alone, on every string of up to MaxLen characters: lower and
\* upper case letters, a digit, the separators, the marker itself and a
\* two-byte character.
MaxLen == 3

EncodeSymbols ==
    { Str(<<"a">>), Str(<<"A">>), Str(<<"Z">>), Str(<<"/">>), Str(<<".">>), Str(<<"1">>),
      Str(<<"!">>), <<195, 169>> }

RECURSIVE Flatten(_)
Flatten(parts) == IF parts = <<>> THEN <<>> ELSE Head(parts) \o Flatten(Tail(parts))

StringsUpTo(symbols, max) ==
    { Flatten(w) : w \in UNION { [1..n -> symbols] : n \in 0..max } }

StringsOver(symbols) == StringsUpTo(symbols, MaxLen)

EncodeInputs == StringsOver(EncodeSymbols)

InitEncode ==
    /\ InitResolver
    /\ disk[MirrorPath(V1)] = NoNode
    /\ disk[WorkspacePath] = NoNode
    /\ getIn = NoGet
    /\ getOut = NoGetOut
    /\ unitIn \in EncodeInputs
    /\ unitOut = NoUnit

DoEncode ==
    /\ unitOut = NoUnit
    /\ unitOut' = [fn |-> "encodePath", out |-> encodePath(unitIn)]
    /\ UNCHANGED <<unitIn, getIn, getOut, resolverVars>>

NextEncode == DoEncode

SpecEncode == InitEncode /\ [][NextEncode]_vars

\* The readers of the filesystem alone: LocalReader.Suggest on every module
\* string of up to MaxLen characters, ModCache.HasModule with and without a
\* root, and ModCache.ListFiles, each over the directories, files and other
\* entries that may be on disk.
NameA == Str(<<"a">>)
Root == Slash

SuggestModules == StringsOver({ NameA, Slash, Dot })

\* The workspace root and its parent exist; the root's child a is absent, a
\* regular file or a directory.
SuggestDisks ==
    { [path \in {Root, LocalDir, LocalDir \o Slash \o NameA} |->
         IF path \in {Root, LocalDir} THEN DirNode(<<>>) ELSE n] :
      n \in { NoNode, FileNode(TextBytes), DirNode(<<>>) } }

MirrorModules == { ModA, NameA }

\* The module directory of a rooted and of an unrooted ModCache: what is at
\* root/encode(module)@version and at encode(module)@version.
HasModuleDisks ==
    { [path \in { ModDir(d, m, V1) : d \in {ModCacheDir, <<>>}, m \in MirrorModules } |->
         IF HasPrefix(path, ModCacheDir \o Slash) THEN n ELSE r] :
      n \in { NoNode, FileNode(TextBytes), DirNode(TreeFull) },
      r \in { NoNode, DirNode(TreeFull) } }

LinkName == Str(<<"l","i","n","k">>)
SubPipe == Str(<<"s","u","b","/","p","i","p","e">>)

ListFilesDisks ==
    { [path \in {MirrorPath(V1)} |-> n] :
      n \in { NoNode, DirNode(<<>>), DirNode(TreeDeep),
               DirNodeWith(TreeDeep, {LinkName}),
               DirNodeWith(TreeFull, {LinkName, SubPipe}) } }

\* What lies beside the module directory: another version of the module and
\* a file directly under the root of the module cache.
OtherText == Str(<<"o","t","h","e","r","\n">>)
SecretText == Str(<<"s","e","c","r","e","t","\n">>)
SecretPath == ModCacheDir \o Slash \o Str(<<"k","e","y">>)

ReadFileDisks ==
    { [path \in {MirrorPath(V1), MirrorPath(V2), SecretPath} |->
         IF path = MirrorPath(V1) THEN DirNode(TreeFull)
         ELSE IF path = MirrorPath(V2) THEN sibling
         ELSE secret] :
      sibling \in { NoNode, DirNode([f \in {GoMod} |-> OtherText]) },
      secret \in { NoNode, FileNode(SecretText) } }

\* Requested paths: a file, nothing, a rooted and a dotted spelling, a path
\* through a directory that is not there, and paths that climb out of the
\* module directory.
ReadFilePaths ==
    { <<>>, GoMod, ABin, Slash \o GoMod, Dot \o Slash \o GoMod,
      Str(<<"s","u","b","/",".",".","/">>) \o GoMod,
      Str(<<"n","o","n","e">>), DotDot,
      DotDot \o Slash \o encodePath(lastPathSegment(ModA)) \o AtSign \o V2 \o Slash \o GoMod,
      DotDot \o Slash \o DotDot \o Slash \o Str(<<"k","e","y">>) }

DiskInputs ==
    { [fn |-> "Suggest", dir |-> LocalDir, module |-> m, prefix |-> <<>>, path |-> <<>>] :
        m \in SuggestModules }
    \cup { [fn |-> "HasModule", dir |-> d, module |-> m, prefix |-> <<>>, path |-> <<>>] :
             d \in {ModCacheDir, <<>>}, m \in MirrorModules }
    \cup { [fn |-> "ListFiles", dir |-> ModCacheDir, module |-> ModA, prefix |-> f,
            path |-> <<>>] :
             f \in TierPrefixes \cup {LinkName} }
    \cup { [fn |-> "ReadFile", dir |-> ModCacheDir, module |-> ModA, prefix |-> <<>>,
            path |-> f] :
             f \in ReadFilePaths }

InitDisk ==
    /\ unitIn \in DiskInputs
    /\ disk \in (IF unitIn.fn = "Suggest" THEN SuggestDisks
                 ELSE IF unitIn.fn = "HasModule" THEN HasModuleDisks
                 ELSE IF unitIn.fn = "ListFiles" THEN ListFilesDisks
                 ELSE ReadFileDisks)
    /\ entries = <<>>
    /\ nextId = 1
    /\ calls = [p \in Procs |-> Idle]
    /\ zipLog = <<>>
    /\ cachedOK = {}
    /\ ncalls = 0
    /\ overlap = FALSE
    /\ mu = NoHolder
    /\ getIn = NoGet
    /\ getOut = NoGetOut
    /\ unitOut = NoUnit

\* local.Suggest(module)
DoSuggest ==
    /\ unitIn.fn = "Suggest"
    /\ unitOut = NoUnit
    /\ unitOut' = [fn |-> "Suggest", text |-> Suggest(disk, unitIn.dir, unitIn.module)]
    /\ UNCHANGED <<unitIn, getIn, getOut, resolverVars>>

\* modCache.HasModule(module, version)
DoHasModule ==
    /\ unitIn.fn = "HasModule"
    /\ unitOut = NoUnit
    /\ unitOut' = [fn |-> "HasModule",
                   has |-> HasModule(disk, unitIn.dir, unitIn.module, V1)]
    /\ UNCHANGED <<unitIn, getIn, getOut, resolverVars>>

\* modCache.ListFiles(module, version, prefix)
DoModListFiles ==
    /\ unitIn.fn = "ListFiles"
    /\ unitOut = NoUnit
    /\ LET r == ModListFiles(disk, unitIn.dir, unitIn.module, V1, unitIn.prefix)
       IN  unitOut' = [fn |-> "ListFiles", err |-> r.err, files |-> r.files]
    /\ UNCHANGED <<unitIn, getIn, getOut, resolverVars>>

\* modCache.ReadFile(module, version, path)
DoModReadFile ==
    /\ unitIn.fn = "ReadFile"
    /\ unitOut = NoUnit
    /\ LET r == ModReadFile(disk, unitIn.dir, unitIn.module, V1, unitIn.path)
       IN  unitOut' = [fn |-> "ReadFile", err |-> r.err, text |-> r.text]
    /\ UNCHANGED <<unitIn, getIn, getOut, resolverVars>>

NextDisk == DoSuggest \/ DoHasModule \/ DoModListFiles \/ DoModReadFile

SpecDisk == InitDisk /\ [][NextDisk]_vars

\* The two parsers of the registry client alone, on every status-200 body of
\* up to MaxBody symbols: version lists over tokens, blanks and line ends,
\* and metadata blobs over the marker, quotes and other bytes.
MaxBody == 5

ListSymbols == { Str(<<"v">>), Str(<<"1">>), Str(<<" ">>), Newline }
LatestSymbols == { VersionKey, <<34>>, Str(<<"v">>), Str(<<"{">>) }

ParseInputs ==
    { [fn |-> "ListVersions", body |-> b] : b \in StringsUpTo(ListSymbols, MaxBody) }
    \cup { [fn |-> "ResolveLatest", body |-> b] :
             b \in StringsUpTo(LatestSymbols, MaxBody) }

InitParse ==
    /\ InitResolver
    /\ disk[MirrorPath(V1)] = NoNode
    /\ disk[WorkspacePath] = NoNode
    /\ getIn = NoGet
    /\ getOut = NoGetOut
    /\ unitIn \in ParseInputs
    /\ unitOut = NoUnit

\* proxy.ListVersions(ctx, module), the registry answering 200 with the body
DoListVersions ==
    /\ unitIn.fn = "ListVersions"
    /\ unitOut = NoUnit
    /\ LET r == ListVersions(ModA, TextResponse(unitIn.body))
       IN  unitOut' = [fn |-> "ListVersions", err |-> r.err, versions |-> r.versions]
    /\ UNCHANGED <<unitIn, getIn, getOut, resolverVars>>

\* proxy.ResolveLatest(ctx, module), the registry answering 200 with the blob
DoResolveLatest ==
    /\ unitIn.fn = "ResolveLatest"
    /\ unitOut = NoUnit
    /\ LET r == ResolveLatest(ModA, TextResponse(unitIn.body))
       IN  unitOut' = [fn |-> "ResolveLatest", err |-> r.err, version |-> r.version]
    /\ UNCHANGED <<unitIn, getIn, getOut, resolverVars>>

NextParse == DoListVersions \/ DoResolveLatest

SpecParse == InitParse /\ [][NextParse]_vars

\* ------------------------------------------------------------------------
\* Properties
\* ------------------------------------------------------------------------

ArchiveOps == {"list_files", "read_file"}
VersionedOps == {"read_mod", "list_files", "read_file"}

\* The requested version is the alias "latest" in some letter case.
AliasAsked(c) == EqualFold(c.version, Str(<<"l","a","t","e","s","t">>))

\* The registry answered the not-found condition.
NotFoundResp(r) == r.transport # "doErr" /\ r.status \in {404, 410}

\* The request yields no body: transport failure, a status other than 200,
\* or a body over the ceiling.
FailedResp(r) == r.transport # "ok" \/ r.status # 200 \/ r.n > 100 * 1024 * 1024

UrlsOf(c) == { c.net[i].url : i \in DOMAIN c.net }

MirrorDirPresent(fs, c) == Stat(fs, ModDir(ModCacheDir, c.module, c.resolved)).kind = "dir"

\* C1: when list-files or read-file is called with a concrete version and
\* the module cache has the module directory at the time of the call, the
\* call ends in that step with the module cache's answer, no registry
\* request, no Get or Put on the ZipCache, and the table as it was.
C1_MirrorBypassesNetworkAndCache ==
    [][\A p \in Procs :
         LET c == calls[p]
             d == calls'[p]
         IN  (/\ c.pc = "mirror"
              /\ d # c
              /\ ~AliasAsked(c)
              /\ MirrorDirPresent(disk, c))
             => /\ d.pc = "done"
                /\ d.net = <<>>
                /\ d.cacheOps = <<>>
                /\ Len(d.mirrorOps) = 2
                /\ d.mirrorOps[2].op = (IF c.op = "list_files" THEN "ListFiles" ELSE "ReadFile")
                /\ d.result = ServeFromModCache(disk, c)
                /\ entries' = entries
                /\ zipLog' = zipLog]_vars

\* C1 witness: a read-file answered by the module cache while the table holds
\* an entry for the same key.
C1_Witness ==
    \E p \in Procs :
        LET c == calls[p]
        IN  /\ c.pc = "done"
            /\ c.op = "read_file"
            /\ ~AliasAsked(c)
            /\ Len(c.mirrorOps) = 2
            /\ c.net = <<>>
            /\ c.cacheOps = <<>>
            /\ c.result.kind = "text"
            /\ CacheKey(c.module, c.resolved) \in DOMAIN entries

GoModReadable(fs, c) ==
    LET node == Stat(fs, ModDir(ModCacheDir, c.module, c.resolved))
    IN  /\ node.kind = "dir"
        /\ GoMod \in DOMAIN node.tree
        /\ Utf8Valid(node.tree[GoMod])

KeysLogged == { zipLog[i].key : i \in DOMAIN zipLog }
RequestsFor(k) == { i \in DOMAIN zipLog : zipLog[i].key = k }
FirstRequestOK(k) ==
    \E i \in RequestsFor(k) : zipLog[i].ok /\ \A j \in RequestsFor(k) : i <= j

C4_LaterCallsServedFromCache ==
    \A p \in Procs :
        LET c   == calls[p]
            key == CacheKey(c.module, c.resolved)
        IN  (c.op \in ArchiveOps /\ key \in c.startCached)
            => /\ c.pc \notin {"download", "put"}
               /\ ZipURL(c.module, c.resolved) \notin UrlsOf(c)
               /\ (c.pc = "done" /\ Len(c.mirrorOps) = 1)
                     => /\ c.cacheOps = <<CacheOp("Get", c.module, c.resolved)>>
                        /\ key \in DOMAIN entries
                        /\ c.result = ServeFromEntry(c, entries[key])

\* C4 witness: a later read-file served from the cached entry that fails on
\* the file (not found, or binary).
C4_Witness ==
    \E p \in Procs :
        LET c == calls[p]
        IN  /\ c.pc = "done"
            /\ c.op = "read_file"
            /\ CacheKey(c.module, c.resolved) \in c.startCached
            /\ c.cacheOps = <<CacheOp("Get", c.module, c.resolved)>>
            /\ c.result.kind = "err"

NotFoundText == Str(<<"n","o","t"," ","f","o","u","n","d">>)

\* C5: list-versions whose version-list request is answered 404 or 410
\* returns the suggestion as a non-error text when the workspace has a
\* directory named as the module's last segment, and a 'not found' error
\* result otherwise; on any other failure it returns that error and does not
\* consult the suggester.
C5_ListVersionsNotFound ==
    [][\A p \in Procs :
         LET c == calls[p]
             d == calls'[p]
             r == d.net[1].resp
             dirThere == Stat(disk, JoinPath(LocalDir, lastPathSegment(c.module))).kind = "dir"
         IN  (c.pc = "list" /\ d.pc = "done")
             => /\ NotFoundResp(r)
                   => IF dirThere
                      THEN /\ d.result.kind = "text"
                           /\ d.result.text # <<>>
                           /\ Index(d.result.text, c.module) >= 0
                      ELSE /\ d.result.kind = "errorResult"
                           /\ Index(d.result.text, NotFoundText) >= 0
                /\ (FailedResp(r) /\ ~NotFoundResp(r))
                   => /\ d.result.kind = "err"
                      /\ ~ErrorsIs(d.result.err, ErrModuleNotFound)
                      /\ d.suggests = <<>>
                      /\ Len(d.net) = 1]_vars

\* C5 witness: a 410 on the version list answered with the suggestion.
C5_Witness ==
    \E p \in Procs :
        LET c == calls[p]
        IN  /\ c.pc = "done"
            /\ c.op = "list_versions"
            /\ c.net[1].resp.status = 410
            /\ c.result.kind = "text"
            /\ c.suggests # <<>>

\* C6: read-manifest, list-files and read-file fail with an error of the
\* not-found kind when any of their registry requests is answered 404 or
\* 410, and never consult the suggester.
C6_NotFoundPropagates ==
    \A p \in Procs :
        LET c == calls[p]
        IN  c.op \in VersionedOps
            => /\ c.suggests = <<>>
               /\ (\E i \in DOMAIN c.net : NotFoundResp(c.net[i].resp))
                     => /\ c.pc = "done"
                        /\ c.result.kind = "err"
                        /\ ErrorsIs(c.result.err, ErrModuleNotFound)

\* C6 witness: the alias resolution is answered 404 while the workspace
\* holds a directory named as the module's last segment.
C6_Witness ==
    \E p \in Procs :
        LET c == calls[p]
        IN  /\ c.pc = "done"
            /\ c.op = "read_file"
            /\ AliasAsked(c)
            /\ c.net[1].resp.status = 404
            /\ Len(c.result.err.chain) = 2
            /\ Stat(disk, WorkspacePath).kind = "dir"

\* C7: for each endpoint URL, 404 and 410 yield the ErrModuleNotFound
\* sentinel, every other status but 200 yields an error that is not of the
\* not-found kind, and only a 200 yields a body.
C7_StatusClassification ==
    getOut.returned
    => LET r == getIn.resp
       IN  /\ (r.transport # "doErr" /\ r.status \in {404, 410})
                 => getOut.err = ErrModuleNotFound /\ getOut.body = NoBody
           /\ (r.transport # "doErr" /\ r.status \notin {200, 404, 410})
                 => /\ IsErr(getOut.err)
                    /\ ~ErrorsIs(getOut.err, ErrModuleNotFound)
                    /\ getOut.body = NoBody
           /\ ~IsErr(getOut.err) => (r.transport = "ok" /\ r.status = 200)

\* C7 witness: a 410 on the archive endpoint classified as not found.
C7_Witness ==
    /\ getOut.returned
    /\ getIn.url = ZipURL(ModA, V1)
    /\ getIn.resp.transport = "ok"
    /\ getIn.resp.status = 410
    /\ ErrorsIs(getOut.err, ErrModuleNotFound)

\* C8: a 200 response with a body of n bytes is returned whole when n is at
\* most 100 MiB and fails as too large when n is more; a returned body is
\* never shorter than what the registry sent.
C8_SizeCeiling ==
    getOut.returned
    => LET r == getIn.resp
       IN  /\ (r.transport = "ok" /\ r.status = 200 /\ r.n <= 100 * 1024 * 1024)
                 => /\ ~IsErr(getOut.err)
                    /\ getOut.body = [data |-> r.data, n |-> r.n]
           /\ (r.transport = "ok" /\ r.status = 200 /\ r.n > 100 * 1024 * 1024)
                 => /\ getOut.err.chain = <<"response too large">>
                    /\ getOut.body = NoBody
           /\ ~IsErr(getOut.err) => getOut.body.n = r.n

\* C8 witness: a body one byte over the ceiling is refused.
C8_Witness ==
    /\ getOut.returned
    /\ getIn.resp.transport = "ok"
    /\ getIn.resp.status = 200
    /\ getIn.resp.n = 100 * 1024 * 1024 + 1
    /\ IsErr(getOut.err)

\* The concrete versions that directly follow the marker in a metadata body,
\* closed by a quote.
ExtractedFrom(body) ==
    { x \in ConcreteVersions :
        /\ Index(body, VersionKey) >= 0
        /\ Index(body, VersionKey \o x \o <<34>>) = Index(body, VersionKey) }

\* The versions a call has passed to the module cache, the ZipCache and the
\* manifest and archive endpoints.
VersionsPassed(c) ==
    { c.mirrorOps[i].version : i \in DOMAIN c.mirrorOps }
    \cup { c.cacheOps[i].version : i \in DOMAIN c.cacheOps }

\* C9: when the requested version is the alias in any letter case, the first
\* request is the latest-metadata one and every version passed on to the
\* module cache, the ZipCache and the manifest and archive endpoints is the
\* concrete version extracted from its body; otherwise the version is passed
\* on as given and the latest-metadata endpoint is not requested.
C9_AliasResolution ==
    \A p \in Procs :
        LET c == calls[p]
        IN  (c.op \in VersionedOps /\ c.pc # "resolve")
            => IF AliasAsked(c)
               THEN /\ c.net # <<>>
                    /\ c.net[1].url = LatestURL(c.module)
                    /\ \A v \in VersionsPassed(c) : v \in ExtractedFrom(c.net[1].resp.data)
                    /\ \A i \in 2..Len(c.net) :
                          \E v \in ExtractedFrom(c.net[1].resp.data) :
                              c.net[i].url \in {ModURL(c.module, v), ZipURL(c.module, v)}
                    /\ c.pc \in {"mod", "mirror", "get", "download", "put"}
                          => c.resolved \in ExtractedFrom(c.net[1].resp.data)
               ELSE /\ LatestURL(c.module) \notin UrlsOf(c)
                    /\ c.resolved = c.version
                    /\ \A v \in VersionsPassed(c) : v = c.version
                    /\ \A i \in DOMAIN c.net :
                          c.net[i].url \in {ModURL(c.module, c.version),
                                            ZipURL(c.module, c.version)}

\* C9 witness: "Latest" resolved to v2, whose archive was requested and put
\* under the key of v2.
C9_Witness ==
    \E p \in Procs :
        LET c == calls[p]
        IN  /\ c.pc = "done"
            /\ AliasAsked(c)
            /\ Len(c.net) = 2
            /\ c.net[2].url = ZipURL(c.module, V2)
            /\ CacheOp("Put", c.module, V2) \in { c.cacheOps[i] : i \in DOMAIN c.cacheOps }
            /\ c.result.kind = "text"

\* C10: when the alias cannot be resolved (the metadata request fails or the
\* body has no version marker), the call fails with that error, wrapped, and
\* does nothing else: no module-cache call, no Get or Put, no further
\* request, no suggestion.
C10_ResolveFailureStops ==
    \A p \in Procs :
        LET c == calls[p]
        IN  (/\ c.op \in VersionedOps
             /\ AliasAsked(c)
             /\ c.net # <<>>
             /\ (FailedResp(c.net[1].resp) \/ Index(c.net[1].resp.data, VersionKey) < 0))
            => /\ c.pc = "done"
               /\ c.result.kind = "err"
               /\ c.result.err.chain[1] = "resolve latest version"
               /\ Len(c.result.err.chain) >= 2
               /\ NotFoundResp(c.net[1].resp) => ErrorsIs(c.result.err, ErrModuleNotFound)
               /\ Len(c.net) = 1
               /\ c.mirrorOps = <<>>
               /\ c.cacheOps = <<>>
               /\ c.suggests = <<>>

\* C10 witness: a 200 metadata body without the marker fails a list-files.
C10_Witness ==
    \E p \in Procs :
        LET c == calls[p]
        IN  /\ c.pc = "done"
            /\ c.op = "list_files"
            /\ AliasAsked(c)
            /\ ~FailedResp(c.net[1].resp)
            /\ Index(c.net[1].resp.data, VersionKey) < 0
            /\ c.result.kind = "err"

\* ------------------------------------------------------------------------
\* C11: the text gate of ReadFile
\* ------------------------------------------------------------------------

\* The file contents of the trees that are well-formed text, listed by hand:
\* plain ASCII and a two-byte character; the others are a PNG signature and a
\* text cut in the middle of a two-byte character.
WellFormedContents == { TextBytes, AccentText }

IsBinaryContentError(err) ==
    IsErr(err) /\ err.chain[Len(err.chain)] = "file appears to be binary"

\* C11: ReadFile of an existing file, on the archive entry and on the module
\* directory alike, returns exactly the file's bytes when they are well-formed
\* text and otherwise fails with the binary-content error and no content.
C11_TextGate ==
    (unitOut.fn = "ReadFile" /\ unitIn.path \in DOMAIN TierTree)
    => \A r \in {unitOut.archive, unitOut.mirror} :
          IF TierTree[unitIn.path] \in WellFormedContents
          THEN r = [err |-> NoErr, text |-> TierTree[unitIn.path]]
          ELSE IsBinaryContentError(r.err) /\ r.text = <<>>

\* C11 witness: a file cut inside a character is refused by both tiers, with
\* no part of it returned.
C11_Witness ==
    /\ unitOut.fn = "ReadFile"
    /\ unitIn.path = SubD
    /\ TierTree = TreeDeep
    /\ IsBinaryContentError(unitOut.archive.err)
    /\ IsBinaryContentError(unitOut.mirror.err)
    /\ unitOut.archive.text = <<>>

\* ------------------------------------------------------------------------
\* C12: no non-text payload reaches a caller
\* ------------------------------------------------------------------------

\* C12 as stated: whatever the registry and the module cache hold, the text
\* of a successful result of any of the four operations is well-formed text.
C12_NoNonTextPayload ==
    \A p \in Procs :
        (calls[p].pc = "done" /\ calls[p].result.kind = "text")
        => Utf8Valid(calls[p].result.text)

\* ------------------------------------------------------------------------
\* C13: the two tiers answer alike
\* ------------------------------------------------------------------------

\* The kind of a failed read: binary content, or the path naming no file
\* (absent from the index, absent from the directory, or naming a directory).
ReadErrorKind(err) ==
    LET cause == err.chain[Len(err.chain)]
    IN  IF cause = "file appears to be binary" THEN "binary-content"
        ELSE IF cause \in { "file not found in archive", "no such file or directory",
                            "is a directory", "not a directory" }
        THEN "file-not-found"
        ELSE cause

\* C13 as stated: over the same file tree, for the same prefix or path (any
\* string), list-files and read-file give the same result from the module
\* cache as from the archive: the same text, or an error of the same kind.
C13_TierEquivalence ==
    unitOut.fn # "none"
    => LET a == unitOut.fromEntry
           m == unitOut.fromModCache
       IN  /\ a.kind = m.kind
           /\ a.kind = "text" => a.text = m.text
           /\ a.kind = "err" => ReadErrorKind(a.err) = ReadErrorKind(m.err)

\* ------------------------------------------------------------------------
\* C14: Put and Get on the ZipCache
\* ------------------------------------------------------------------------

\* The successful Puts for exactly this module and version among the first n
\* calls.
PutsBefore(n, module, version) ==
    { j \in 1..n : /\ unitIn[j].fn = "Put"
                   /\ unitIn[j].module = module
                   /\ unitIn[j].version = version
                   /\ ~IsErr(unitOut[j].err) }

LastOf(S) == CHOOSE j \in S : \A k \in S : k <= j

\* C14 as stated: Get(m, v) returns the very entry the last successful
\* Put(m, v, ...) returned, and the absent signal when (m, v) was never Put;
\* a Put for another version of m does not change what Get(m, v) returns.
C14_PutGet ==
    \A i \in DOMAIN unitIn :
        unitIn[i].fn = "Get"
        => LET puts == PutsBefore(i - 1, unitIn[i].module, unitIn[i].version)
           IN  /\ puts = {} => unitOut[i].entry = NilEntry
               /\ puts # {} => unitOut[i].entry = unitOut[LastOf(puts)].entry
               /\ \A h \in 1..(i - 1) :
                     ( /\ unitIn[h].fn = "Get"
                       /\ unitIn[h].module = unitIn[i].module
                       /\ unitIn[h].version = unitIn[i].version
                       /\ \A j \in (h + 1)..(i - 1) :
                             /\ unitIn[j].fn = "Put"
                             /\ unitIn[j].module = unitIn[i].module
                             /\ unitIn[j].version # unitIn[i].version )
                     => unitOut[i].entry = unitOut[h].entry

\* ------------------------------------------------------------------------
\* C15: a Put that does not parse
\* ------------------------------------------------------------------------

\* The step just taken is a Put that returned an error.
FailedPutStep ==
    /\ Len(unitIn') = Len(unitIn) + 1
    /\ unitIn'[Len(unitIn')].fn = "Put"
    /\ ~unitIn'[Len(unitIn')].data.valid

\* C15: a Put whose bytes do not parse returns the parse error and no entry,
\* and the table after it is the table before it: nothing added under the
\* key, nothing removed or replaced under this or any other key.
C15_CorruptPutStoresNothing ==
    [][FailedPutStep
         => /\ unitOut'[Len(unitOut')].err.chain[1] = "parse zip"
            /\ unitOut'[Len(unitOut')].entry = NilEntry
            /\ DOMAIN entries' = DOMAIN entries
            /\ \A k \in DOMAIN entries : entries'[k] = entries[k]]_vars

\* C15 witness: a Put of corrupt bytes on a key that holds an entry has
\* failed and the entry is still the one stored before.
C15_Witness ==
    /\ Len(unitIn) = 2
    /\ unitIn[1].fn = "Put" /\ ~IsErr(unitOut[1].err)
    /\ unitIn[2].fn = "Put" /\ IsErr(unitOut[2].err)
    /\ unitIn[2].module = unitIn[1].module
    /\ unitIn[2].version = unitIn[1].version
    /\ entries[CacheKey(unitIn[1].module, unitIn[1].version)] = unitOut[1].entry

\* ------------------------------------------------------------------------
\* C16: the index of an entry
\* ------------------------------------------------------------------------

\* The wrapper prefix of a Put and a record name with it taken off the front.
WrapperOf(call) == call.module \o <<64>> \o call.version \o <<47>>

Unwrapped(name, wrapper) ==
    IF Len(name) >= Len(wrapper) /\ \A i \in DOMAIN wrapper : name[i] = wrapper[i]
    THEN [i \in 1..(Len(name) - Len(wrapper)) |-> name[i + Len(wrapper)]]
    ELSE name

IsDirName(name) == name = <<>> \/ name[Len(name)] = 47

\* The keys the index of a Put must have: every record name, unwrapped, that
\* is neither empty nor a directory marker.
ExpectedKeys(call) ==
    { Unwrapped(call.data.records[i].name, WrapperOf(call)) : i \in DOMAIN call.data.records }
    \ { n \in { Unwrapped(call.data.records[i].name, WrapperOf(call)) :
                  i \in DOMAIN call.data.records } : IsDirName(n) }

SuccessfulPuts == { i \in DOMAIN unitIn : unitIn[i].fn = "Put" /\ ~IsErr(unitOut[i].err) }

\* C16 as stated: the index keys of every entry Put built are exactly the
\* unwrapped record names that are neither empty nor end with "/", ListFiles("")
\* returns exactly those, and no key is empty, ends with "/" or still starts
\* with the wrapper prefix.
C16_Original ==
    \A i \in SuccessfulPuts :
        LET keys == DOMAIN unitOut[i].entry.files
        IN  /\ keys = ExpectedKeys(unitIn[i])
            /\ ZipListFiles(unitOut[i].entry, <<>>) = ExpectedKeys(unitIn[i])
            /\ \A k \in keys :
                  /\ ~IsDirName(k)
                  /\ Unwrapped(k, WrapperOf(unitIn[i])) = k

\* C16 amended: the index keys of every entry Put built are exactly the
\* record names with one leading wrapper prefix taken off that are neither
\* empty nor end with "/", ListFiles("") returns exactly those, and no key is
\* empty or ends with "/".
C16_IndexInvariant ==
    \A i \in SuccessfulPuts :
        LET keys == DOMAIN unitOut[i].entry.files
        IN  /\ keys = ExpectedKeys(unitIn[i])
            /\ ZipListFiles(unitOut[i].entry, <<>>) = ExpectedKeys(unitIn[i])
            /\ \A k \in keys : ~IsDirName(k)

\* C16 witness: an entry built from an archive with directory markers, a
\* record outside the wrapper and a record that repeats the wrapper.
C16_Witness ==
    \E i \in SuccessfulPuts :
        /\ unitIn[i].data = OddZip(unitIn[i].module, unitIn[i].version)
        /\ Cardinality(DOMAIN unitOut[i].entry.files) = 3
        /\ WrapperOf(unitIn[i]) \o ABin \in DOMAIN unitOut[i].entry.files

\* ------------------------------------------------------------------------
\* C17: ListFiles on an entry
\* ------------------------------------------------------------------------

StartsWith(name, prefix) ==
    Len(prefix) <= Len(name) /\ \A i \in DOMAIN prefix : name[i] = prefix[i]

TierIndex == DOMAIN ZipCacheGet(entries, ModA, V1).files

\* C17: ListFiles(prefix) on an entry returns each indexed path that starts
\* with prefix, byte for byte, exactly once and nothing else: all of them
\* for the empty prefix, none when no path starts with it.
C17_ListFilesPrefix ==
    unitOut.fn = "ListFiles"
    => LET out == unitOut.archive
       IN  /\ \A i \in DOMAIN out : out[i] \in TierIndex /\ StartsWith(out[i], unitIn.path)
           /\ \A n \in TierIndex :
                 StartsWith(n, unitIn.path)
                 => Cardinality({ i \in DOMAIN out : out[i] = n }) = 1
           /\ unitIn.path = <<>> => Len(out) = Cardinality(TierIndex)
           /\ (\A n \in TierIndex : ~StartsWith(n, unitIn.path)) => out = <<>>

\* C17 witness: the prefix "s", which is no path element, returns the two
\* files under sub/.
C17_Witness ==
    /\ unitOut.fn = "ListFiles"
    /\ unitIn.path = <<115>>
    /\ TierTree = TreeDeep
    /\ Len(unitOut.archive) = 2
    /\ { unitOut.archive[i] : i \in DOMAIN unitOut.archive } = {SubC, SubD}

\* ------------------------------------------------------------------------
\* C18: encodePath
\* ------------------------------------------------------------------------

IsUpper(b) == b >= 65 /\ b <= 90

\* The encoding written out from the claim: left to right, '!' and the
\* lower-case letter for an upper-case ASCII letter, anything else as it is.
RECURSIVE Escaped(_)
Escaped(x) ==
    IF x = <<>> THEN <<>>
    ELSE (IF IsUpper(x[1]) THEN <<33, x[1] + 32>> ELSE <<x[1]>>) \o Escaped(Tail(x))

PlainSymbols ==
    { Str(<<"a">>), Str(<<"A">>), Str(<<"Z">>), Str(<<"/">>), Str(<<".">>), Str(<<"1">>) }

PlainInputs == StringsOver(PlainSymbols)

\* Each '!'+c replaced by the upper case of c.
RECURSIVE Unescaped(_)
Unescaped(y) ==
    IF y = <<>> THEN <<>>
    ELSE IF y[1] = 33 /\ Len(y) >= 2
    THEN <<y[2] - 32>> \o Unescaped(SubSeq(y, 3, Len(y)))
    ELSE <<y[1]>> \o Unescaped(Tail(y))

EncodedForm == [x \in PlainInputs |-> encodePath(x)]
ArchiveURL == [x \in PlainInputs |-> ZipURL(x, V1)]
MirrorDirName == [x \in PlainInputs |-> ModDir(ModCacheDir, x, V1)]

\* C19 as stated: over letters, digits, '.' and '/', undoing the escapes of
\* encode(x) gives x back, and no other module path has the same encoded
\* form, the same registry URL or the same module cache directory.
C19_Original ==
    (unitOut.fn = "encodePath" /\ unitIn \in PlainInputs)
    => /\ Unescaped(unitOut.out) = unitIn
       /\ \A y \in PlainInputs \ {unitIn} :
             /\ EncodedForm[y] # unitOut.out
             /\ ArchiveURL[y] # ArchiveURL[unitIn]
             /\ MirrorDirName[y] # MirrorDirName[unitIn]

\* C19 amended: over letters, digits, '.' and '/', undoing the escapes of
\* encode(x) gives x back, and no other module path has the same encoded
\* form or the same registry URL.
C19_RoundTrip ==
    (unitOut.fn = "encodePath" /\ unitIn \in PlainInputs)
    => /\ Unescaped(unitOut.out) = unitIn
       /\ \A y \in PlainInputs \ {unitIn} :
             /\ EncodedForm[y] # unitOut.out
             /\ ArchiveURL[y] # ArchiveURL[unitIn]

\* C19 witness: "AaZ" encoded as "!aa!z", which only "AaZ" encodes to.
C19_Witness ==
    /\ unitOut.fn = "encodePath"
    /\ unitIn = <<65, 97, 90>>
    /\ unitOut.out = <<33, 97, 97, 33, 122>>
    /\ Unescaped(unitOut.out) = unitIn

\* ------------------------------------------------------------------------
\* C20: what happens to the failure of a sub-step
\* ------------------------------------------------------------------------

\* The innermost message of the error a failed response gives rise to.
CauseOfResp(r) ==
    IF r.transport # "ok" THEN r.cause
    ELSE IF r.status \in {404, 410} THEN "module not found"
    ELSE IF r.status # 200 THEN "unexpected status"
    ELSE "response too large"

\* Why the module directory cannot give this file as text, or "" if it can.
CauseOfMirrorRead(fs, c, path) ==
    LET tree == Stat(fs, ModDir(ModCacheDir, c.module, c.resolved)).tree
    IN  IF path = <<>> THEN "is a directory"
        ELSE IF path \notin DOMAIN tree THEN "no such file or directory"
        ELSE IF tree[path] \notin WellFormedContents THEN "file appears to be binary"
        ELSE ""

\* Why the archive of the registry cannot give this file as text, or "".
CauseOfEntryRead(path) ==
    IF path \notin DOMAIN TreeFull THEN "file not found in archive"
    ELSE IF TreeFull[path] \notin WellFormedContents THEN "file appears to be binary"
    ELSE ""

\* The sub-steps that failed in the step that took call c to call d: registry
\* requests (by URL), reads of the module directory, the parse of the
\* archive, the read of a file of the entry.
StepFailures(fs, tbl, c, d) ==
    IF d = c THEN {} ELSE
    { [step |-> "request", url |-> d.net[i].url, cause |-> CauseOfResp(d.net[i].resp)] :
        i \in { j \in (Len(c.net) + 1)..Len(d.net) : FailedResp(d.net[j].resp) } }
    \cup { [step |-> "mirror read", url |-> <<>>, cause |-> CauseOfMirrorRead(fs, c, GoMod)] :
             x \in { y \in {1} : /\ c.pc = "mod"
                                 /\ MirrorDirPresent(fs, c)
                                 /\ CauseOfMirrorRead(fs, c, GoMod) # "" } }
    \cup { [step |-> "mirror read", url |-> <<>>, cause |-> CauseOfMirrorRead(fs, c, c.path)] :
             x \in { y \in {1} : /\ c.pc = "mirror"
                                 /\ c.op = "read_file"
                                 /\ MirrorDirPresent(fs, c)
                                 /\ CauseOfMirrorRead(fs, c, c.path) # "" } }
    \cup { [step |-> "parse", url |-> <<>>, cause |-> "zip: not a valid zip file"] :
             x \in { y \in {1} : c.pc = "put" /\ ~c.body.data.valid } }
    \cup { [step |-> "file read", url |-> <<>>, cause |-> CauseOfEntryRead(c.path)] :
             x \in { y \in {1} :
                       /\ c.op = "read_file"
                       /\ \/ c.pc = "put" /\ c.body.data.valid
                          \/ c.pc = "get" /\ CacheKey(c.module, c.resolved) \in DOMAIN tbl
                       /\ CauseOfEntryRead(c.path) # "" } }

\* The operation failed with the error of this sub-step.
FailsWith(d, f) ==
    /\ d.pc = "done"
    /\ d.result.kind = "err"
    /\ d.result.err.chain[Len(d.result.err.chain)] = f.cause

\* The one designated substitution: list-versions answers a not-found of the
\* version list with the suggestion or the not-found result.
NotFoundSubstituted(d, f) ==
    /\ d.pc = "done"
    /\ d.op = "list_versions"
    /\ f.step = "request"
    /\ f.url = ListURL(d.module)
    /\ f.cause = "module not found"
    /\ d.result.kind \in {"text", "errorResult"}
    /\ d.suggests = <<d.module>>

LatestFailureDropped(d, f) ==
    /\ d.pc = "done"
    /\ d.op = "list_versions"
    /\ f.step = "request"
    /\ f.url = LatestURL(d.module)
    /\ d.result.kind = "text"

\* read-manifest replaces a failed read of the module directory's go.mod by
\* one manifest request, whose outcome is the call's.
ManifestReadReplaced(c, d, f) ==
    /\ d.pc = "done"
    /\ c.pc = "mod"
    /\ f.step = "mirror read"
    /\ Len(d.net) = Len(c.net) + 1
    /\ LET q == d.net[Len(d.net)]
       IN  /\ q.url = ModURL(d.module, d.resolved)
           /\ IF FailedResp(q.resp)
              THEN FailsWith(d, [cause |-> CauseOfResp(q.resp)])
              ELSE d.result = textResult(q.resp.data)

Inserts(p) == calls[p].pc = "put locked" /\ calls'[p].pc = "done"

\* The entry that indexes every file record of an archive under its name
\* without the wrapper prefix.
CompleteFor(entry, c) ==
    LET prefix == c.module \o AtSign \o c.resolved \o Slash
        recs   == c.body.data.records
        fileAt == { i \in DOMAIN recs : ~HasSuffix(recs[i].name, Slash) }
    IN  /\ c.body.data.valid
        /\ DOMAIN entry.files = { TrimPrefix(recs[i].name, prefix) : i \in fileAt }
        /\ \A i \in fileAt : entry.files[TrimPrefix(recs[i].name, prefix)] = recs[i].content

\* C21: under every interleaving of concurrent list-files and read-file
\* calls that miss the table, the table changes only when a call inserts,
\* the insertion replaces the entry of the call's key by the call's entry and
\* leaves every other key alone (so the table holds one entry per key, the
\* one inserted last), and the inserting call is answered from the complete
\* entry of the archive it downloaded itself.
C21_MissRace ==
    [][/\ (entries' # entries) => \E p \in Procs : Inserts(p)
       /\ \A p \in Procs :
             Inserts(p) =>
                LET c   == calls[p]
                    d   == calls'[p]
                    key == CacheKey(c.module, c.resolved)
                IN  /\ DOMAIN entries' = DOMAIN entries \cup {key}
                    /\ entries'[key] = c.built
                    /\ \A k \in DOMAIN entries \ {key} : entries'[k] = entries[k]
                    /\ c.built.id \notin { entries[k].id : k \in DOMAIN entries }
                    /\ CompleteFor(c.built, c)
                    /\ d.result = ServeFromEntry(c, c.built)]_vars

\* C21 witness: two calls for one key have both downloaded, parsed and
\* inserted, their archives differ and so do their answers, and the table
\* holds the entry that was built first and inserted last.
C21_Witness ==
    \E p, q \in Procs :
        LET c == calls[p]
            d == calls[q]
        IN  /\ p # q
            /\ c.pc = "done" /\ d.pc = "done"
            /\ c.module = d.module /\ c.resolved = d.resolved /\ c.op = d.op
            /\ c.built # NilEntry /\ d.built # NilEntry
            /\ c.body # d.body
            /\ c.result # d.result
            /\ c.built.id < d.built.id
            /\ entries[CacheKey(c.module, c.resolved)] = c.built

\* ------------------------------------------------------------------------
\* C22: cancelled registry requests
\* ------------------------------------------------------------------------

\* The request was cancelled: before the response, or while the body was read.
Cancelled(r) ==
    r.transport \in {"doErr", "readErr"} /\ r.cause = "context canceled"

CancelledRequests(c) == { i \in DOMAIN c.net : Cancelled(c.net[i].resp) }

\* The call failed with the cancellation as the innermost error.
FailsCancelled(c) ==
    /\ c.pc = "done"
    /\ c.result.kind = "err"
    /\ c.result.err.chain[Len(c.result.err.chain)] = "context canceled"

FinalSegment(module) ==
    LET slashes == { i \in DOMAIN module : module[i] = Slash[1] }
        last    == IF slashes = {} THEN 0
                   ELSE CHOOSE i \in slashes : \A j \in slashes : j <= i
    IN  SubSeq(module, last + 1, Len(module))

\* A name an entry of a directory can have.
IsEntryName(name) ==
    /\ name # <<>>
    /\ name # Dot
    /\ name # DotDot
    /\ \A i \in DOMAIN name : name[i] # Slash[1]

\* A directory of that name exists directly under root.
ChildDirExists(fs, root, name) ==
    IsEntryName(name) /\ Stat(fs, root \o Slash \o name).kind = "dir"

Contains(s, substr) == Index(s, substr) >= 0

\* C23: Suggest(module) returns a message, naming the module and the path
\* root/<final segment>, exactly when a directory named as the module's final
\* segment exists directly under the workspace root, and the empty result
\* when nothing or a regular file is there.
C23_SuggestIffDirectory ==
    unitOut.fn = "Suggest"
        => LET seg == FinalSegment(unitIn.module)
           IN  /\ (unitOut.text # <<>>) <=> ChildDirExists(disk, unitIn.dir, seg)
               /\ (unitOut.text # <<>>)
                     => /\ Contains(unitOut.text, unitIn.module)
                        /\ Contains(unitOut.text, unitIn.dir \o Slash \o seg)

\* ------------------------------------------------------------------------
\* C24: HasModule
\* ------------------------------------------------------------------------

\* C24: HasModule(module, version) is true exactly when the mirror root is
\* not empty and root/encode(module)@version is a directory; it is false for
\* a regular file, for nothing, and for every disk when the root is empty.
C24_HasModule ==
    unitOut.fn = "HasModule"
        => LET name == encodePath(unitIn.module) \o AtSign \o V1
               path == unitIn.dir \o Slash \o name
           IN  /\ unitOut.has <=> (unitIn.dir # <<>> /\ Stat(disk, path).kind = "dir")
               /\ unitIn.dir = <<>> => ~unitOut.has

\* C24 witness: with an empty root HasModule has answered false although the
\* directory encode(module)@version exists relative to the working directory.
C24_Witness ==
    /\ unitOut.fn = "HasModule"
    /\ unitIn.dir = <<>>
    /\ unitIn.module = ModA
    /\ Stat(disk, encodePath(ModA) \o AtSign \o V1).kind = "dir"
    /\ ~unitOut.has

\* ------------------------------------------------------------------------
\* C25: ListFiles of the mirror
\* ------------------------------------------------------------------------

\* C25: ListFiles of an existing module directory returns exactly the
\* regular files below it, by relative forward-slash path, that start with
\* the prefix (all of them for the empty prefix), and nothing that is a
\* directory or another kind of entry; a failed walk returns the error and
\* no list.
C25_MirrorListFiles ==
    unitOut.fn = "ListFiles"
        => LET node == Stat(disk, ModDir(unitIn.dir, unitIn.module, V1))
           IN  IF node.kind = "dir"
               THEN /\ ~IsErr(unitOut.err)
                    /\ unitOut.files =
                         { f \in DOMAIN node.tree :
                             unitIn.prefix = <<>> \/ HasPrefix(f, unitIn.prefix) }
               ELSE IsErr(unitOut.err) /\ unitOut.files = {}

\* ------------------------------------------------------------------------
\* C26: parsing the version list
\* ------------------------------------------------------------------------

\* The body's lines: what stands between the line ends.
RECURSIVE LinesFrom(_, _)
LinesFrom(body, line) ==
    IF body = <<>> THEN <<line>>
    ELSE IF Head(body) = Newline[1] THEN <<line>> \o LinesFrom(Tail(body), <<>>)
    ELSE LinesFrom(Tail(body), Append(line, Head(body)))

IsBlank(line) == \A i \in DOMAIN line : IsSpace(line[i])

NonBlankLinesOf(body) == SelectSeq(LinesFrom(body, <<>>), LAMBDA l : ~IsBlank(l))

\* The line without the white space before its first and after its last
\* other character.
Trimmed(line) ==
    LET inked == { i \in DOMAIN line : ~IsSpace(line[i]) }
        first == CHOOSE i \in inked : \A j \in inked : i <= j
        last  == CHOOSE i \in inked : \A j \in inked : j <= i
    IN  IF inked = {} THEN <<>> ELSE SubSeq(line, first, last)

\* C26 as stated: for a status-200 body the list is the sequence of the
\* body's non-blank lines, in their order, and never an error.
C26_Original ==
    unitOut.fn = "ListVersions"
        => /\ ~IsErr(unitOut.err)
           /\ unitOut.versions = NonBlankLinesOf(unitIn.body)

\* C26 amended: for a status-200 body the list holds, for each non-blank
\* line of the body in order, that line without its leading and trailing
\* white space: one token per non-blank line, none added, dropped or
\* duplicated, and the empty list (not an error) when every line is blank.
C26_ListVersionsParsing ==
    unitOut.fn = "ListVersions"
        => LET kept == NonBlankLinesOf(unitIn.body)
           IN  /\ ~IsErr(unitOut.err)
               /\ Len(unitOut.versions) = Len(kept)
               /\ \A i \in DOMAIN kept : unitOut.versions[i] = Trimmed(kept[i])

\* C26 witness: a body with a blank line and a line that starts with a space
\* has been parsed into its two tokens.
C26_Witness ==
    /\ unitOut.fn = "ListVersions"
    /\ unitIn.body = Str(<<"v","\n","\n"," ","1">>)
    /\ unitOut.versions = << Str(<<"v">>), Str(<<"1">>) >>

\* ------------------------------------------------------------------------
\* C27: extracting the latest version
\* ------------------------------------------------------------------------

Quote == <<34>>

\* The marker stands at byte position i of the blob (1-based).
MarkerAt(blob, i) ==
    /\ i + Len(VersionKey) - 1 <= Len(blob)
    /\ SubSeq(blob, i, i + Len(VersionKey) - 1) = VersionKey

MarkerPositions(blob) == { i \in DOMAIN blob : MarkerAt(blob, i) }

\* C27: for every metadata blob the result is the text between the first
\* marker and the next double quote after it; with no marker, or no double
\* quote after the first marker, the operation fails and returns no version.
C27_LatestExtraction ==
    unitOut.fn = "ResolveLatest"
        => LET blob   == unitIn.body
               marks  == MarkerPositions(blob)
               first  == CHOOSE i \in marks : \A j \in marks : i <= j
               from   == first + Len(VersionKey)
               quotes == { k \in from..Len(blob) : blob[k] = Quote[1] }
               close  == CHOOSE k \in quotes : \A l \in quotes : k <= l
           IN  IF marks = {} \/ quotes = {}
               THEN IsErr(unitOut.err) /\ unitOut.version = <<>>
               ELSE /\ ~IsErr(unitOut.err)
                    /\ unitOut.version = SubSeq(blob, from, close - 1)

\* C27 witness: a blob with two markers has given the text after the first.
C27_Witness ==
    /\ unitOut.fn = "ResolveLatest"
    /\ Cardinality(MarkerPositions(unitIn.body)) = 2
    /\ ~IsErr(unitOut.err)
    /\ unitOut.version = Str(<<"v">>)

\* ------------------------------------------------------------------------
\* C28: no eviction
\* ------------------------------------------------------------------------

\* Call i is a Get of (module, version).
IsGetOf(i, module, version) ==
    /\ unitIn[i].fn = "Get"
    /\ unitIn[i].module = module
    /\ unitIn[i].version = version

\* C28: once a Get of (module, version) has returned an entry, every later
\* Get of it returns an entry, whatever Put (successful or failing), Get,
\* ListFiles and ReadFile calls came in between.
C28_NoEviction ==
    \A i, j \in DOMAIN unitIn :
        (/\ i < j
         /\ unitIn[i].fn = "Get"
         /\ unitOut[i].entry # NilEntry
         /\ IsGetOf(j, unitIn[i].module, unitIn[i].version))
            => unitOut[j].entry # NilEntry

\* C28 witness: a Get returned an entry, a Put on the same key then failed,
\* and a second Get of the key returned the same entry.
C28_Witness ==
    /\ Len(unitIn) = 4
    /\ unitIn[1].fn = "Put"
    /\ unitIn[2].fn = "Get"
    /\ unitOut[2].entry # NilEntry
    /\ unitIn[3].fn = "Put"
    /\ unitIn[3].version = unitIn[2].version
    /\ IsErr(unitOut[3].err)
    /\ IsGetOf(4, unitIn[2].module, unitIn[2].version)
    /\ unitOut[4].entry = unitOut[2].entry

\* ------------------------------------------------------------------------
\* C29: no retries
\* ------------------------------------------------------------------------

\* C29: within one call no registry URL is requested twice, so a request
\* that failed is not sent again by that call.
C29_NoRetries ==
    \A p \in Procs :
        LET net == calls[p].net
        IN  /\ \A i, j \in DOMAIN net : net[i].url = net[j].url => i = j
            /\ \A i \in DOMAIN net :
                  FailedResp(net[i].resp)
                     => \A j \in DOMAIN net : j > i => net[j].url # net[i].url

\* C29 witness: a read-file call for "latest" has resolved the version, its
\* archive request has failed with a server error, and the call has ended
\* with two requests made.
C29_Witness ==
    \E p \in Procs :
        LET c == calls[p]
        IN  /\ c.pc = "done"
            /\ c.op = "read_file"
            /\ Len(c.net) = 2
            /\ c.net[1].url = LatestURL(c.module)
            /\ c.net[2].url = ZipURL(c.module, c.resolved)
            /\ c.net[2].resp.status = 500
            /\ c.result.kind = "err"

\* ------------------------------------------------------------------------
\* C30: the lock covers the map access only
\* ------------------------------------------------------------------------

\* The call waits for a registry response or parses an archive.
Working(c) == c.pc \in {"download", "put"}

\* The call asks for the lock.
AtLock(c) == c.pc \in {"get", "put lock"}

\* The holder of the lock is at the map access of Get or of Put.
LockScope ==
    \A p \in Procs :
        /\ mu = p => calls[p].pc \in {"get locked", "put locked"}
        /\ Working(calls[p]) => mu # p

\* A call that asks for the lock while the other call downloads or parses
\* finds the lock free.
NoWaitForWork ==
    \A p, q \in Procs :
        (p # q /\ AtLock(calls[p]) /\ Working(calls[q])) => mu = NoHolder

\* Some running call can take a step.
NotStuck ==
    (\E p \in Procs : Running(calls[p]))
        => \E p \in Procs :
              /\ Running(calls[p])
              /\ AtLock(calls[p]) => mu = NoHolder

\* C30: the lock is held only during the map lookup or insertion and never
\* while its holder downloads or parses, so a Get or Put of another call
\* does not wait for a download or a parse; no interleaving deadlocks, and
\* every call that has started ends once its registry request has returned.
C30_LockCoversMapAccessOnly ==
    /\ [](LockScope /\ NoWaitForWork /\ NotStuck)
    /\ \A p \in Procs : Running(calls[p]) ~> (calls[p].pc = "done")

\* C30 witness: one call has missed, downloaded, and is about to parse, and
\* meanwhile the other call, which also missed on the same key, has
\* downloaded, parsed, inserted and returned.
C30_Witness ==
    \E p, q \in Procs :
        LET c == calls[p]
            d == calls[q]
        IN  /\ p # q
            /\ overlap
            /\ d.pc = "put"
            /\ c.pc = "done"
            /\ c.resolved = d.resolved
            /\ c.cacheOps = << CacheOp("Get", c.module, c.resolved),
                               CacheOp("Put", c.module, c.resolved) >>
            /\ c.result.kind = "text"
            /\ mu = NoHolder

\* ------------------------------------------------------------------------
\* C31: read-only operations
\* ------------------------------------------------------------------------

\* The step is a call of Get, ListFiles or ReadFile.
ReadOnlyCall ==
    /\ Len(unitIn') = Len(unitIn) + 1
    /\ unitIn'[Len(unitIn')].fn \in {"Get", "ListFiles", "ReadFile"}

\* The requests sent so far, by anyone.
RequestsSent == <<zipLog, [p \in Procs |-> calls[p].net]>>

\* Every copy of an entry, whether a caller holds it or the table does, has
\* the index the entry was built with.
IndexStable ==
    LET copies == HeldEntries \cup { entries[k] : k \in DOMAIN entries }
    IN  \A e, f \in copies : e.id = f.id => DOMAIN e.files = DOMAIN f.files

\* C31: a call of Get, ListFiles or ReadFile, whether it succeeds or fails,
\* leaves the table (and with it every entry's index) as it was and sends no
\* request; an entry's index has the same keys for as long as the process
\* runs.
C31_ReadOnlyOperations ==
    /\ [][ReadOnlyCall => (entries' = entries /\ RequestsSent' = RequestsSent)]_vars
    /\ []IndexStable

\* C31 witness: after a Put, a Get that found the entry, a ReadFile on it
\* that failed and a Get of another key that found nothing, the table holds
\* the one entry with the index it was built with.
C31_Witness ==
    /\ Len(unitIn) = 4
    /\ unitIn[1].fn = "Put"
    /\ ~IsErr(unitOut[1].err)
    /\ IsGetOf(2, unitIn[1].module, unitIn[1].version)
    /\ unitOut[2].entry = unitOut[1].entry
    /\ unitIn[3].fn = "ReadFile"
    /\ IsErr(unitOut[3].err)
    /\ unitIn[4].fn = "Get"
    /\ unitIn[4].version # unitIn[1].version
    /\ unitOut[4].entry = NilEntry
    /\ DOMAIN entries = { CacheKey(unitIn[1].module, unitIn[1].version) }
    /\ DOMAIN entries[CacheKey(unitIn[1].module, unitIn[1].version)].files = {GoMod, ABin}

\* ------------------------------------------------------------------------
\* C32: a failed archive acquisition is not cached
\* ------------------------------------------------------------------------

KeyOf(c) == CacheKey(c.module, c.resolved)

\* The step ends call p with the error of its download or of the parse of
\* what it downloaded.
AcquisitionFails(p) ==
    /\ calls[p].pc \in {"download", "put"}
    /\ calls'[p].pc = "done"
    /\ calls'[p].result.kind = "err"
    /\ calls'[p].built = NilEntry

\* The latest archive request for the key failed, or brought bytes that do
\* not parse.
LastAcquisitionFailed(k) ==
    \E i \in RequestsFor(k) : ~zipLog[i].ok /\ \A j \in RequestsFor(k) : j <= i

\* The step is getOrDownload's lookup by call p.
LooksUp(p) == calls[p].pc = "get" /\ calls'[p] # calls[p]

\* The step is call p's archive request.
Downloads(p) ==
    /\ calls[p].pc = "download"
    /\ Len(calls'[p].net) = Len(calls[p].net) + 1
    /\ calls'[p].net[Len(calls'[p].net)].url = ZipURL(calls[p].module, calls[p].resolved)
    /\ Len(zipLog') = Len(zipLog) + 1

ContentsInside(fs, root, module, version) ==
    LET node == Stat(fs, root \o Slash \o encodePath(module) \o AtSign \o version)
    IN  IF node.kind = "dir" THEN { node.tree[f] : f \in DOMAIN node.tree } ELSE {}

\* C33: for every requested path, also one with '..' elements, a leading '/'
\* or none at all, ModCache.ReadFile(module, version, path) returns content
\* only of a file inside the module directory, never of a file outside it.
C33_PathConfinement ==
    (unitOut.fn = "ReadFile" /\ ~IsErr(unitOut.err))
        => unitOut.text \in ContentsInside(disk, unitIn.dir, unitIn.module, V1)

\* ------------------------------------------------------------------------
\* C34: the directory a suggestion names
\* ------------------------------------------------------------------------

\* The directory named at the end of a suggestion.
SuggestedDir(text) ==
    LET marker == Str(<<" ","l","o","c","a","l"," ","d","i","r","e","c","t","o","r","y"," ">>)
        i      == Index(text, marker)
    IN  SubSeq(text, i + Len(marker) + 1, Len(text))

\* dir is root/name for a name an entry of root can have.
IsDirectChild(dir, root) ==
    /\ HasPrefix(dir, root \o Slash)
    /\ IsEntryName(SubSeq(dir, Len(root) + 2, Len(dir)))

\* C34: the directory named in a non-empty suggestion is a direct child of
\* the workspace root, never the root itself and never a directory outside
\* it, for every module string: empty, ending in '/', or with the final
\* segment '.' or '..'.
C34_SuggestedDirIsChild ==
    (unitOut.fn = "Suggest" /\ unitOut.text # <<>>)
        => IsDirectChild(SuggestedDir(unitOut.text), unitIn.dir)

\* ------------------------------------------------------------------------
\* C35: key separation in the table
\* ------------------------------------------------------------------------

\* The entries that successful Puts for exactly this module and version
\* returned among the first n calls.
EntriesPutFor(n, module, version) ==
    { unitOut[j].entry : j \in PutsBefore(n, module, version) }

\* C35: Get(m, v) returns an entry only if a Put with exactly that module
\* and that version succeeded earlier, and then it returns the entry of the
\* last such Put: a Put or Get for another (module, version) pair never reads
\* or replaces it, also when the strings hold an '@'.
C35_KeySeparation ==
    \A i \in DOMAIN unitIn :
        (unitIn[i].fn = "Get" /\ unitOut[i].entry # NilEntry)
        => LET m == unitIn[i].module
               v == unitIn[i].version
           IN  /\ PutsBefore(i - 1, m, v) # {}
               /\ unitOut[i].entry \in EntriesPutFor(i - 1, m, v)
               /\ \A j \in 1..(i - 1) :
                     (unitIn[j].fn = "Put" /\ ~IsErr(unitOut[j].err)
                        /\ <<unitIn[j].module, unitIn[j].version>> # <<m, v>>)
                     => unitOut[i].entry # unitOut[j].entry

\* ------------------------------------------------------------------------
\* C36: the list-files result is deterministic
\* ------------------------------------------------------------------------

\* The lines of a list-files text: the header, then one per path.
ResultLines(text) ==
    LET parts == Split(text, Newline)
    IN  SubSeq(parts, 1, Len(parts) - 1)

PathLines(text) == Tail(ResultLines(text))

Ascending(lines) ==
    \A i \in 1..(Len(lines) - 1) : StrLess(lines[i], lines[i + 1])

DecimalOf(n) == IF n < 10 THEN <<48 + n>> ELSE <<48 + (n \div 10), 48 + (n % 10)>>

\* The header ends with the count of files.
ReportsCount(header, n) ==
    HasSuffix(header, Str(<<" ","(">>) \o DecimalOf(n)
                      \o Str(<<" ","f","i","l","e","s",")",":">>))

\* The set of the elements of a slice.
Elements(files) == { files[i] : i \in DOMAIN files }

\* C36: a list-files result lists its paths in ascending order, each path the
\* serving tier's ListFiles returned for the prefix and no other, and its
\* header reports as many files as it lists; two calls over the same files
\* and prefix give the same result whatever the order in which the tier
\* visited its files.
C36_DeterministicListFiles ==
    unitOut.fn = "ListFiles"
    => /\ \A i \in DOMAIN unitOut.runs :
             LET run   == unitOut.runs[i]
                 lines == PathLines(run.result.text)
             IN  /\ run.result.kind = "text"
                 /\ Ascending(lines)
                 /\ Elements(lines) = Elements(run.listed)
                 /\ Len(lines) = Len(run.listed)
                 /\ ReportsCount(Head(ResultLines(run.result.text)), Len(lines))
       /\ \A i, j \in DOMAIN unitOut.runs :
             unitOut.runs[i].tier = unitOut.runs[j].tier
                => unitOut.runs[i].result = unitOut.runs[j].result

\* C36 witness: the archive tier returned the same four paths in two
\* different orders, neither of them ascending, and both calls gave the one
\* result with the paths in ascending order.
C36_Witness ==
    /\ unitOut.fn = "ListFiles"
    /\ unitIn.path = <<>>
    /\ Len(unitOut.runs[1].listed) = 4
    /\ unitOut.runs[1].listed # unitOut.runs[2].listed
    /\ ~Ascending(unitOut.runs[1].listed)
    /\ ~Ascending(unitOut.runs[2].listed)
    /\ unitOut.runs[1].result = unitOut.runs[2].result
    /\ PathLines(unitOut.runs[1].result.text) = <<ABin, GoMod, SubC, SubD>>

====
